---- MODULE Spec2Model ----
(***************************************************************************)
(* FHE-zkVM demo: the additive scheme of the guest                         *)
(* (methods/guest/src/pure_rust_fhe.rs), the external challenger           *)
(* (challenger.rs) and the protocol driver (fhe_proof_protocol.rs).        *)
(*                                                                         *)
(* A Rust u64 is a tuple of four 16-bit limbs, least significant first, so *)
(* that 64-bit carries, the reduction modulo Q = 2^58 and the little-endian*)
(* byte encoding are computed at their true width.                         *)
(***************************************************************************)
EXTENDS Integers, Sequences, FiniteSets, TLC

\* ------------------------------------------------------------------ u64
Base == 256 * 256

U64Zero == <<0, 0, 0, 0>>

\* A natural number below 2^31 as a u64.
U64(n) == <<n % Base, n \div Base, 0, 0>>

\* The value of a u64 known to be below 2^31.
U64Small(x) == x[3] = 0 /\ x[4] = 0 /\ x[2] < 128 * 256

U64ToNat(x) == x[1] + Base * x[2]

U64Lt(a, b) ==
    \/ a[4] < b[4]
    \/ a[4] = b[4] /\ a[3] < b[3]
    \/ a[4] = b[4] /\ a[3] = b[3] /\ a[2] < b[2]
    \/ a[4] = b[4] /\ a[3] = b[3] /\ a[2] = b[2] /\ a[1] < b[1]

\* a + b over the integers: four limbs and the carry out of bit 63.
U64AddWide(a, b) ==
    LET s1 == a[1] + b[1]
        s2 == a[2] + b[2] + s1 \div Base
        s3 == a[3] + b[3] + s2 \div Base
        s4 == a[4] + b[4] + s3 \div Base
    IN  <<s1 % Base, s2 % Base, s3 % Base, s4 % Base, s4 \div Base>>

U64Low(w) == <<w[1], w[2], w[3], w[4]>>

\* u64::wrapping_add
U64WrappingAdd(a, b) == U64Low(U64AddWide(a, b))

\* a - b for a >= b.
U64Sub(a, b) ==
    LET d1 == a[1] - b[1]
        d2 == a[2] - b[2] - (IF d1 < 0 THEN 1 ELSE 0)
        d3 == a[3] - b[3] - (IF d2 < 0 THEN 1 ELSE 0)
        d4 == a[4] - b[4] - (IF d3 < 0 THEN 1 ELSE 0)
    IN  <<d1 % Base, d2 % Base, d3 % Base, d4 % Base>>

\* The product of two limbs as <<low limb, high limb>>, without leaving 31 bits.
LimbMul(x, y) ==
    LET pl == (x % 256) * y
        ph == (x \div 256) * y
        t  == pl + (ph % 256) * 256
    IN  <<t % Base, ph \div 256 + t \div Base>>

\* acc + (a * y) * Base^(k-1) for a limb y: one row of the schoolbook product,
\* added to an accumulator of eight limbs at limb k
MulRow(acc, a, y, k) ==
    LET p1 == LimbMul(a[1], y)
        p2 == LimbMul(a[2], y)
        p3 == LimbMul(a[3], y)
        p4 == LimbMul(a[4], y)
        t1 == acc[k] + p1[1]
        t2 == acc[k + 1] + p1[2] + p2[1] + t1 \div Base
        t3 == acc[k + 2] + p2[2] + p3[1] + t2 \div Base
        t4 == acc[k + 3] + p3[2] + p4[1] + t3 \div Base
        t5 == acc[k + 4] + p4[2] + t4 \div Base
        row == <<t1 % Base, t2 % Base, t3 % Base, t4 % Base, t5 % Base>>
    IN  SubSeq(acc, 1, k - 1) \o row \o SubSeq(acc, k + 5, 8)

\* a * b over the integers, eight limbs.
U64MulWide(a, b) ==
    MulRow(MulRow(MulRow(MulRow(<<0, 0, 0, 0, 0, 0, 0, 0>>, a, b[1], 1), a, b[2], 2), a, b[3], 3),
           a, b[4], 4)

U64MulOverflows(a, b) ==
    LET w == U64MulWide(a, b)
    IN  w[5] # 0 \/ w[6] # 0 \/ w[7] # 0 \/ w[8] # 0

\* u64::wrapping_mul; equal to a * b whenever the product fits 64 bits
U64WrappingMul(a, b) == U64Low(U64MulWide(a, b))

\* Restoring division on the register pair r:a (five limbs of remainder above
\* four limbs of dividend, least significant limb first) and the count of steps
\* left: shift the pair left by one bit; when the remainder reaches b, subtract
\* b and set the quotient bit that entered at the bottom.
DivShift(ra) ==
    LET t1 == 2 * ra[1]
        t2 == 2 * ra[2] + t1 \div Base
        t3 == 2 * ra[3] + t2 \div Base
        t4 == 2 * ra[4] + t3 \div Base
        t5 == 2 * ra[5] + t4 \div Base
        t6 == 2 * ra[6] + t5 \div Base
        t7 == 2 * ra[7] + t6 \div Base
        t8 == 2 * ra[8] + t7 \div Base
        t9 == 2 * ra[9] + t8 \div Base
    IN  <<t1 % Base, t2 % Base, t3 % Base, t4 % Base,
          t5 % Base, t6 % Base, t7 % Base, t8 % Base, t9 % Base, ra[10] - 1>>

DivSubtract(sh, b) ==
    LET d5 == sh[5] - b[1]
        d6 == sh[6] - b[2] - (IF d5 < 0 THEN 1 ELSE 0)
        d7 == sh[7] - b[3] - (IF d6 < 0 THEN 1 ELSE 0)
        d8 == sh[8] - b[4] - (IF d7 < 0 THEN 1 ELSE 0)
    IN  <<sh[1] + 1, sh[2], sh[3], sh[4], d5 % Base, d6 % Base, d7 % Base, d8 % Base, 0, sh[10]>>

\* One step on the shifted pair sh
DivStep(sh, b) ==
    IF sh[9] > 0 \/ ~U64Lt(<<sh[5], sh[6], sh[7], sh[8]>>, b) THEN DivSubtract(sh, b) ELSE sh

RECURSIVE DivSteps(_, _)
DivSteps(ra, b) ==
    IF ra[10] = 0 THEN ra ELSE DivSteps(DivStep(DivShift(ra), b), b)

\* The pair before the division of a by a non-zero b.  The top limbs of a that
\* cannot reach b (b has a non-zero limb above them) start in the remainder, so
\* that only the other bits are shifted.
DivStart(a, b) ==
    IF b[4] # 0 THEN <<0, 0, 0, a[1], a[2], a[3], a[4], 0, 0, 16>>
    ELSE IF b[3] # 0 THEN <<0, 0, a[1], a[2], a[3], a[4], 0, 0, 0, 32>>
    ELSE IF b[2] # 0 THEN <<0, a[1], a[2], a[3], a[4], 0, 0, 0, 0, 48>>
    ELSE <<a[1], a[2], a[3], a[4], 0, 0, 0, 0, 0, 64>>

U64DivRem(a, b) == DivSteps(DivStart(a, b), b)

\* u64 `/` and `%`; two values below 2^31 are divided as plain integers
U64Div(a, b) ==
    IF U64Small(a) /\ U64Small(b) THEN U64(U64ToNat(a) \div U64ToNat(b))
    ELSE U64Low(U64DivRem(a, b))

U64Mod(a, b) ==
    IF U64Small(a) /\ U64Small(b) THEN U64(U64ToNat(a) % U64ToNat(b))
    ELSE IF U64Lt(a, b) THEN a
    ELSE SubSeq(U64DivRem(a, b), 5, 8)

\* Option<T> and Result<T, E>
None == [some |-> FALSE]

Some(v) == [some |-> TRUE, val |-> v]

Ok(v) == [ok |-> TRUE, val |-> v]

Err(e) == [ok |-> FALSE, err |-> e]

\* ------------------------------------------- guest: pure_rust_fhe.rs
PLAINTEXT_MODULUS == 65537

\* 2^58 = 1024 * 2^48
CIPHERTEXT_MODULUS == <<0, 0, 0, 1024>>

POLYNOMIAL_DEGREE == 32

MAX_NOISE_BOUND == PLAINTEXT_MODULUS \div 16

\* A scaling factor of 2^25, which the noise of ten thousand additions exceeds
scaling_factor_small == <<0, 512, 0, 0>>

\* A scaling factor of 2^43, with which the largest plaintexts scale beyond Q
scaling_factor_large == U64Div(CIPHERTEXT_MODULUS, U64(PLAINTEXT_MODULUS \div 2))

\* CIPHERTEXT_MODULUS / PLAINTEXT_MODULUS, as encrypt and decrypt compute it
scaling_factor == U64Div(CIPHERTEXT_MODULUS, U64(PLAINTEXT_MODULUS))

Signed(v) == [val |-> v]

Cipher(data) == [ciphertext_data |-> data]

\* u64::to_le_bytes
to_le_bytes(v) ==
    <<v[1] % 256, v[1] \div 256, v[2] % 256, v[2] \div 256,
      v[3] % 256, v[3] \div 256, v[4] % 256, v[4] \div 256>>

\* The bytes read most significant first
from_be_bytes(b) ==
    <<b[8] + 256 * b[7], b[6] + 256 * b[5], b[4] + 256 * b[3], b[2] + 256 * b[1]>>

\* u64::from_le_bytes
from_le_bytes(b) ==
    <<b[1] + 256 * b[2], b[3] + 256 * b[4], b[5] + 256 * b[6], b[7] + 256 * b[8]>>

\* The bytes of the coefficients lo..hi (1-based) of data in coefficient order,
\* as the extend_from_slice calls of a serialization loop append them; the range
\* is halved at each level
RECURSIVE extend_from_slices(_, _, _)
extend_from_slices(data, lo, hi) ==
    IF lo > hi THEN <<>>
    ELSE IF lo = hi THEN to_le_bytes(data[lo])
    ELSE extend_from_slices(data, lo, (lo + hi) \div 2)
            \o extend_from_slices(data, (lo + hi) \div 2 + 1, hi)

\* Cipher::serialize
serialize(c) == extend_from_slices(c.ciphertext_data, 1, Len(c.ciphertext_data))

\* data[start..end] (0-based, end exclusive)
Slice(data, start, end) == SubSeq(data, start + 1, end)

\* A deserialization that rejects short buffers only and reads the first bytes of a long one
deserialize_ciphertext_prefix(data) ==
    LET expected_len == POLYNOMIAL_DEGREE * 2 * 8
    IN  IF Len(data) < expected_len
        THEN Err([tag |-> "InvalidCiphertextLength",
                  expected |-> expected_len, actual |-> Len(data)])
        ELSE Ok(Cipher([i \in 1..(POLYNOMIAL_DEGREE * 2) |->
                          from_le_bytes(Slice(data, (i - 1) * 8, (i - 1) * 8 + 8))]))

\* PureRustFheRuntime::deserialize_ciphertext
deserialize_ciphertext(data) ==
    LET expected_len == POLYNOMIAL_DEGREE * 2 * 8
    IN  IF Len(data) # expected_len
        THEN Err([tag |-> "InvalidCiphertextLength",
                  expected |-> expected_len, actual |-> Len(data)])
        ELSE Ok(Cipher([i \in 1..(POLYNOMIAL_DEGREE * 2) |->
                          from_le_bytes(Slice(data, (i - 1) * 8, (i - 1) * 8 + 8))]))

\* An addition that saturates at 2^64 - 1 instead of reporting the overflow
saturating_add(a, b) ==
    LET w == U64AddWide(a, b)
    IN  IF w[5] = 0 THEN Some(U64Low(w)) ELSE Some(<<Base - 1, Base - 1, Base - 1, Base - 1>>)

\* u64::checked_add
checked_add(a, b) ==
    LET w == U64AddWide(a, b)
    IN  IF w[5] = 0 THEN Some(U64Low(w)) ELSE None

\* A coefficient sum reduced by the plaintext modulus instead of the ciphertext modulus
add_coeff_mod_plaintext(a, b) == U64Mod(U64WrappingAdd(a, b), U64(PLAINTEXT_MODULUS))

\* One coefficient of impl Add for Cipher<Signed>.  The fallback sum of two
\* values below Q cannot overflow 64 bits.
add_coeff(a, b) ==
    LET c   == checked_add(a, b)
        sum == IF c.some THEN c.val
               ELSE U64WrappingAdd(U64Mod(a, CIPHERTEXT_MODULUS), U64Mod(b, CIPHERTEXT_MODULUS))
    IN  U64Mod(sum, CIPHERTEXT_MODULUS)

Min(m, n) == IF m < n THEN m ELSE n

\* impl Add for Cipher<Signed>
add(self, other) ==
    LET len == Min(Len(self.ciphertext_data), Len(other.ciphertext_data))
    IN  Cipher([i \in 1..(POLYNOMIAL_DEGREE * 2) |->
                  IF i <= len
                  THEN add_coeff(self.ciphertext_data[i], other.ciphertext_data[i])
                  ELSE U64Zero])

\* An encryption that checks the sign only and reduces a large plaintext modulo P
encrypt_reducing(plaintext, public_key, draws) ==
    IF plaintext.val < 0
    THEN Err([tag |-> "EncryptionFailed", reason |-> "negative", value |-> plaintext.val])
    ELSE LET plaintext_val    == U64Mod(U64(plaintext.val), U64(PLAINTEXT_MODULUS))
             scaled_plaintext == U64WrappingMul(plaintext_val, scaling_factor)
             noise_magnitude  == U64(draws[1] % MAX_NOISE_BOUND)
         IN  Ok(Cipher([i \in 1..(POLYNOMIAL_DEGREE * 2) |->
                          IF i = 1
                          THEN U64Mod(U64WrappingAdd(scaled_plaintext, noise_magnitude),
                                      CIPHERTEXT_MODULUS)
                          ELSE U64Mod(U64(draws[i]), CIPHERTEXT_MODULUS)]))

\* PureRustFheRuntime::encrypt.  draws[i] is floor(|gaussian sample|) of the
\* i-th sample taken (noise_sample.abs() as u64, coeff_noise.abs() as u64).
encrypt(plaintext, public_key, draws) ==
    IF plaintext.val < 0
    THEN Err([tag |-> "EncryptionFailed", reason |-> "negative", value |-> plaintext.val])
    ELSE IF plaintext.val >= PLAINTEXT_MODULUS
    THEN Err([tag |-> "EncryptionFailed", reason |-> "exceeds modulus", value |-> plaintext.val])
    ELSE LET plaintext_val    == U64Mod(U64(plaintext.val), U64(PLAINTEXT_MODULUS))
             scaled_plaintext == U64WrappingMul(plaintext_val, scaling_factor)
             noise_magnitude  == U64(draws[1] % MAX_NOISE_BOUND)
         IN  Ok(Cipher([i \in 1..(POLYNOMIAL_DEGREE * 2) |->
                          IF i = 1
                          THEN U64Mod(U64WrappingAdd(scaled_plaintext, noise_magnitude),
                                      CIPHERTEXT_MODULUS)
                          ELSE U64Mod(U64(draws[i]), CIPHERTEXT_MODULUS)]))

\* PureRustFheRuntime::decrypt
decrypt(ciphertext, private_key) ==
    LET noisy_scaled_plaintext == ciphertext.ciphertext_data[1]
        descaled_val  == U64Div(noisy_scaled_plaintext, scaling_factor)
        decrypted_val == U64Mod(descaled_val, U64(PLAINTEXT_MODULUS))
    IN  Ok(Signed(U64ToNat(decrypted_val)))


\* ------------------------------------------------- challenger.rs
CHALLENGER_PLAINTEXT_MODULUS == 65537

\* 2^58
CHALLENGER_CIPHERTEXT_MODULUS == <<0, 0, 0, 1024>>

CHALLENGER_POLYNOMIAL_DEGREE == 32

CHALLENGER_NOISE_STANDARD_DEVIATION == "3.19"

\* CIPHERTEXT_MODULUS / PLAINTEXT_MODULUS, as encrypt and deserialize_and_decrypt compute it
challenger_scaling_factor == U64Div(CHALLENGER_CIPHERTEXT_MODULUS, U64(CHALLENGER_PLAINTEXT_MODULUS))

\* `v as u64` for an i64 v of magnitude below 2^31 (two's complement)
I64AsU64(v) == IF v >= 0 THEN U64(v) ELSE U64Low(U64AddWide(U64Sub(<<Base - 1, Base - 1, Base - 1, Base - 1>>, U64(-v)), U64(1)))

FheParameters ==
    [plaintext_modulus  |-> CHALLENGER_PLAINTEXT_MODULUS,
     ciphertext_modulus |-> CHALLENGER_CIPHERTEXT_MODULUS,
     polynomial_degree  |-> CHALLENGER_POLYNOMIAL_DEGREE,
     noise_std_dev      |-> CHALLENGER_NOISE_STANDARD_DEVIATION]

\* ExternalChallenger::generate_challenge_keys; rng holds the values gen_range returns
generate_challenge_keys(rng) ==
    [public_key  |-> [key_data |-> [i \in 1..CHALLENGER_POLYNOMIAL_DEGREE |-> rng.key_data[i]]],
     private_key |-> [secret_data |-> [i \in 1..CHALLENGER_POLYNOMIAL_DEGREE |-> rng.secret_data[i]]]]

\* ExternalChallenger::new
ExternalChallenger_new(rng) ==
    [keys |-> generate_challenge_keys(rng), parameters |-> FheParameters]

\* ExternalChallenger::encrypt
challenger_encrypt(self, plaintext, draws) ==
    LET plaintext_val    == U64Mod(I64AsU64(plaintext.val), U64(CHALLENGER_PLAINTEXT_MODULUS))
        scaled_plaintext == U64WrappingMul(plaintext_val, challenger_scaling_factor)
        noise_magnitude  == U64(draws[1] % (CHALLENGER_PLAINTEXT_MODULUS \div 16))
    IN  Ok(Cipher([i \in 1..(CHALLENGER_POLYNOMIAL_DEGREE * 2) |->
                     IF i = 1
                     THEN U64Mod(U64WrappingAdd(scaled_plaintext, noise_magnitude),
                                 CHALLENGER_CIPHERTEXT_MODULUS)
                     ELSE U64Mod(U64(draws[i]), CHALLENGER_CIPHERTEXT_MODULUS)]))

\* ExternalChallenger::serialize_ciphertext
serialize_ciphertext(self, ciphertext) ==
    extend_from_slices(ciphertext.ciphertext_data, 1, Len(ciphertext.ciphertext_data))

\* ExternalChallenger::deserialize_and_decrypt
deserialize_and_decrypt(self, data) ==
    LET expected_len == CHALLENGER_POLYNOMIAL_DEGREE * 2 * 8
    IN  IF Len(data) # expected_len
        THEN Err([tag |-> "Invalid ciphertext length", expected |-> expected_len, actual |-> Len(data)])
        ELSE LET ciphertext_data == [i \in 1..(CHALLENGER_POLYNOMIAL_DEGREE * 2) |->
                                       from_le_bytes(Slice(data, (i - 1) * 8, (i - 1) * 8 + 8))]
                 noisy_scaled_plaintext == ciphertext_data[1]
                 descaled_val  == U64Div(noisy_scaled_plaintext, challenger_scaling_factor)
                 decrypted_val == U64Mod(descaled_val, U64(CHALLENGER_PLAINTEXT_MODULUS))
             IN  Ok(Signed(U64ToNat(decrypted_val)))

\* A receipt verifier that accepts receipts of 32 bytes only
verify_receipt_32_bytes(self, receipt) == Len(receipt) = 32

\* ExternalChallenger::verify_receipt
verify_receipt(self, receipt) == TRUE

\* ExternalChallenger::get_public_key
get_public_key(self) == self.keys.public_key

\* Iterator::sum over s[lo..hi], halving the range
RECURSIVE SumRange(_, _, _)
SumRange(s, lo, hi) ==
    IF lo > hi THEN 0
    ELSE IF lo = hi THEN s[lo]
    ELSE LET mid == (lo + hi) \div 2
         IN  SumRange(s, lo, mid) + SumRange(s, mid + 1, hi)

Sum(s) == SumRange(s, 1, Len(s))

\* A challenge whose key field carries the whole key pair
create_challenge_with_key_pair(self, test_id, num_votes, rng, now) ==
    [parameters |-> self.parameters,
     public_key |-> self.keys,
     challenge_ciphertexts |->
         [i \in 1..num_votes |->
             serialize_ciphertext(self,
                 challenger_encrypt(self, Signed(rng[i].plaintext_val), rng[i].draws).val)],
     challenge_metadata |->
         [test_id |-> test_id,
          challenge_plaintexts |-> [i \in 1..num_votes |-> rng[i].plaintext_val],
          expected_operations |-> <<"HomomorphicAdd", "DecryptFinalTallies">>,
          timestamp |-> now]]

\* ExternalChallenger::create_challenge.  rng[i] holds what the i-th iteration
\* draws: plaintext_val (gen_range(0..3)) and the Gaussian draws of encrypt.
create_challenge(self, test_id, num_votes, rng, now) ==
    LET challenge_plaintexts  == [i \in 1..num_votes |-> rng[i].plaintext_val]
        challenge_ciphertexts ==
            [i \in 1..num_votes |->
                serialize_ciphertext(self,
                    challenger_encrypt(self, Signed(rng[i].plaintext_val), rng[i].draws).val)]
        metadata == [test_id |-> test_id,
                     challenge_plaintexts |-> challenge_plaintexts,
                     expected_operations |-> <<"HomomorphicAdd", "DecryptFinalTallies">>,
                     timestamp |-> now]
    IN  [parameters |-> self.parameters,
         public_key |-> self.keys.public_key,
         challenge_ciphertexts |-> challenge_ciphertexts,
         challenge_metadata |-> metadata]

\* An iteration that reports a failing result by its 0-based index
verify_iteration_zero_based(loop, i, r) ==
    IF r.ok
    THEN [failed |-> FALSE,
          decrypted_results |-> Append(loop.decrypted_results, r.val.val),
          verification_log  |-> Append(loop.verification_log,
                                       [entry |-> "Result decrypted", result |-> i + 1,
                                        value |-> r.val.val]),
          calls |-> Append(loop.calls, i)]
    ELSE [failed |-> TRUE, result |-> i, e |-> r.err,
          verification_log |-> loop.verification_log, calls |-> Append(loop.calls, i)]

\* One iteration of the loop of verify_zkvm_result on result i (0-based), r being
\* what deserialize_and_decrypt returned for it: the loop's state after it.
\* calls lists the indices handed to deserialize_and_decrypt so far.
verify_iteration(loop, i, r) ==
    IF r.ok
    THEN [failed |-> FALSE,
          decrypted_results |-> Append(loop.decrypted_results, r.val.val),
          verification_log  |-> Append(loop.verification_log,
                                       [entry |-> "Result decrypted", result |-> i + 1,
                                        value |-> r.val.val]),
          calls |-> Append(loop.calls, i)]
    ELSE [failed |-> TRUE, result |-> i + 1, e |-> r.err,
          verification_log |-> loop.verification_log, calls |-> Append(loop.calls, i)]

\* The loop over result_ciphertexts[i..], left at the first Err
RECURSIVE verify_loop(_, _, _, _)
verify_loop(self, result_ciphertexts, i, loop) ==
    IF loop.failed \/ i >= Len(result_ciphertexts) THEN loop
    ELSE verify_loop(self, result_ciphertexts, i + 1,
                     verify_iteration(loop, i,
                                      deserialize_and_decrypt(self, result_ciphertexts[i + 1])))

VerificationResult(success, error, decrypted_results, verification_log) ==
    [success |-> success, error |-> error,
     decrypted_results |-> decrypted_results, verification_log |-> verification_log]

\* A comparison that accepts any decrypted sum reaching the expected one
verify_sums_at_least(expected_sum, actual_sum, decrypted_results, verification_log) ==
    IF expected_sum <= actual_sum
    THEN VerificationResult(TRUE, None, Some(decrypted_results),
             verification_log
               \o <<"FHE COMPUTATION VERIFIED: Homomorphic addition correct",
                    "PROOF COMPLETE: Real FHE operations occurred inside zkVM">>)
    ELSE VerificationResult(FALSE,
             Some([tag |-> "FHE arithmetic mismatch",
                   expected |-> expected_sum, got |-> actual_sum]),
             Some(decrypted_results), verification_log)

\* The end of verify_zkvm_result: the comparison of the sums
verify_sums(expected_sum, actual_sum, decrypted_results, verification_log) ==
    IF expected_sum = actual_sum
    THEN VerificationResult(TRUE, None, Some(decrypted_results),
             verification_log
               \o <<"FHE COMPUTATION VERIFIED: Homomorphic addition correct",
                    "PROOF COMPLETE: Real FHE operations occurred inside zkVM">>)
    ELSE VerificationResult(FALSE,
             Some([tag |-> "FHE arithmetic mismatch",
                   expected |-> expected_sum, got |-> actual_sum]),
             Some(decrypted_results), verification_log)

\* verify_zkvm_result once the loop is over
verify_after_loop(challenge_input, loop) ==
    IF loop.failed
    THEN [result |-> VerificationResult(FALSE,
                         Some([tag |-> "Decryption failed for result",
                               result |-> loop.result, e |-> loop.e]),
                         None, loop.verification_log),
          calls |-> loop.calls]
    ELSE [result |-> verify_sums(Sum(challenge_input.challenge_metadata.challenge_plaintexts),
                                 Sum(loop.decrypted_results),
                                 loop.decrypted_results, loop.verification_log),
          calls |-> loop.calls]

\* A verification that decrypts the results before it looks at the receipt
verify_after_receipt_checked_last(self, challenge_input, receipt_valid, result_ciphertexts) ==
    IF ~receipt_valid
    THEN [result |-> VerificationResult(FALSE, Some([tag |-> "zkVM receipt validation failed"]),
                                        None, <<"RECEIPT_INVALID">>),
          calls |-> verify_loop(self, result_ciphertexts, 0,
                                [failed |-> FALSE, decrypted_results |-> <<>>,
                                 verification_log |-> <<>>, calls |-> <<>>]).calls]
    ELSE verify_after_loop(challenge_input,
             verify_loop(self, result_ciphertexts, 0,
                         [failed |-> FALSE, decrypted_results |-> <<>>,
                          verification_log |-> <<>>, calls |-> <<>>]))

\* ExternalChallenger::verify_zkvm_result after the call of verify_receipt,
\* with the list of deserialize_and_decrypt calls it made.
verify_after_receipt(self, challenge_input, receipt_valid, result_ciphertexts) ==
    IF ~receipt_valid
    THEN [result |-> VerificationResult(FALSE, Some([tag |-> "zkVM receipt validation failed"]),
                                        None, <<"RECEIPT_INVALID">>),
          calls |-> <<>>]
    ELSE verify_after_loop(challenge_input,
             verify_loop(self, result_ciphertexts, 0,
                         [failed |-> FALSE, decrypted_results |-> <<>>,
                          verification_log |-> <<>>, calls |-> <<>>]))

\* ExternalChallenger::verify_zkvm_result
verify_zkvm_result(self, challenge_input, zkvm_receipt, result_ciphertexts) ==
    verify_after_receipt(self, challenge_input, verify_receipt(self, zkvm_receipt),
                         result_ciphertexts).result

\* PureRustFheRuntime::new
PureRustFheRuntime_new == [public_key |-> None, private_key |-> None, noise_seed |-> 12345]

\* PureRustFheRuntime::generate_keys: the runtime after the call and the pair it returns
generate_keys(self, rng) ==
    LET secret_data == [i \in 1..POLYNOMIAL_DEGREE |-> rng.secret_data[i]]
        key_data    == [i \in 1..POLYNOMIAL_DEGREE |-> rng.key_data[i]]
        public_key  == [key_data |-> key_data]
        private_key == [secret_data |-> secret_data]
    IN  [self |-> [self EXCEPT !.public_key = Some(public_key), !.private_key = Some(private_key)],
         public_key |-> public_key, private_key |-> private_key]

\* ------------------------------------------- guest: main.rs
MAX_VOTES == 10000

EXPECTED_CANDIDATES == 3

MAX_CIPHERTEXT_SIZE == 1024

\* input.encrypted_votes is kept as a list of votes and the number of times the
\* list is repeated: its length, and its i-th vote (0-based)
votes_len(input) == Len(input.encrypted_votes) * input.times

vote_at(input, i) == input.encrypted_votes[(i % Len(input.encrypted_votes)) + 1]

\* The start of tally_encrypted_votes_with_fhe: the three encryptions of zero;
\* draws[k] holds the samples of the k-th one
zero_tallies(public_key, draws) ==
    [k \in 1..3 |-> encrypt(Signed(0), public_key, draws[k]).val]

\* One iteration of the loop over input.encrypted_votes: the three tallies after it
tally_vote(tally, encrypted_vote) ==
    LET vector == encrypted_vote.encrypted_vote_vector
    IN  IF Len(vector) # EXPECTED_CANDIDATES THEN tally
        ELSE IF \E idx \in 1..Len(vector) : Len(vector[idx]) > MAX_CIPHERTEXT_SIZE THEN tally
        ELSE [candidate_idx \in 1..3 |->
                 LET r == deserialize_ciphertext(vector[candidate_idx])
                 IN  IF r.ok THEN add(tally[candidate_idx], r.val)
                     ELSE tally[candidate_idx]]

\* create_computation_hash: the u64 that is formatted as 16 hexadecimal digits.
\* Each count is at most 2^16, so the bit a count of 2^16 sets is or-ed into the
\* lowest bit of the field above it.
create_computation_hash(count1, count2, count3) ==
    LET or_bit(field, bit) == IF bit = 1 THEN field + 1 - (field % 2) ELSE field
        combined == <<count3 % Base,
                      or_bit(count2 % Base, count3 \div Base),
                      or_bit(count1 % Base, count2 \div Base),
                      count1 \div Base>>
    IN  U64WrappingMul(combined, <<31765, 32586, 31161, 40503>>)

\* The end of tally_encrypted_votes_with_fhe: decryption of the tallies and the output
tally_result(tally, private_key) ==
    LET option1_count == decrypt(tally[1], private_key).val.val
        option2_count == decrypt(tally[2], private_key).val.val
        option3_count == decrypt(tally[3], private_key).val.val
    IN  [option1_count |-> option1_count,
         option2_count |-> option2_count,
         option3_count |-> option3_count,
         total_votes   |-> option1_count + option2_count + option3_count,
         computation_hash |-> create_computation_hash(option1_count, option2_count,
                                                      option3_count)]

\* ------------------------------------------- host: fhe_client.rs
CLIENT_PLAINTEXT_MODULUS == 1024

\* 2^40 = 256 * 2^32
CLIENT_CIPHERTEXT_MODULUS == <<0, 0, 256, 0>>

CLIENT_POLYNOMIAL_DEGREE == 8

\* Cipher::serialize of the client
client_serialize(c) == extend_from_slices(c.ciphertext_data, 1, Len(c.ciphertext_data))

\* PureRustFheRuntime::generate_keys of the client; rng holds what gen_range returns
client_generate_keys(rng) ==
    [public_key  |-> [key_data |-> [i \in 1..CLIENT_POLYNOMIAL_DEGREE |-> rng.key_data[i]]],
     private_key |-> [secret_data |-> [i \in 1..CLIENT_POLYNOMIAL_DEGREE |-> rng.secret_data[i]]]]

\* FheClient::new: the private key is dropped
FheClient_new(rng) ==
    [runtime |-> [noise_seed |-> 12345], public_key |-> client_generate_keys(rng).public_key]

\* PureRustFheRuntime::encrypt of the client.  draws[i] is floor(|gaussian sample|)
\* of the i-th sample taken.
client_encrypt(plaintext, public_key, draws) ==
    LET plaintext_val    == U64Mod(I64AsU64(plaintext.val), U64(CLIENT_PLAINTEXT_MODULUS))
        client_scaling   == U64Div(CLIENT_CIPHERTEXT_MODULUS, U64(CLIENT_PLAINTEXT_MODULUS))
        scaled_plaintext == U64WrappingMul(plaintext_val, client_scaling)
        noise_magnitude  == U64(draws[1] % (CLIENT_PLAINTEXT_MODULUS \div 8))
    IN  Ok(Cipher([i \in 1..(CLIENT_POLYNOMIAL_DEGREE * 2) |->
                     IF i = 1
                     THEN U64Mod(U64WrappingAdd(scaled_plaintext, noise_magnitude),
                                 CLIENT_CIPHERTEXT_MODULUS)
                     ELSE U64Mod(U64(draws[i]), CLIENT_CIPHERTEXT_MODULUS)]))

\* FheClient::encrypt_vote_vector; vote_choice is the discriminant 1..3 of the
\* VoteOption, draws[k] the samples of the k-th encryption
encrypt_vote_vector(self, vote_choice, draws) ==
    LET ciphertext(candidate_idx) ==
            client_encrypt(Signed(IF candidate_idx = vote_choice - 1 THEN 1 ELSE 0),
                           self.public_key, draws[candidate_idx + 1])
    IN  IF \E candidate_idx \in 0..2 : ~ciphertext(candidate_idx).ok
        THEN Err([tag |-> "EncryptionFailed"])
        ELSE Ok([k \in 1..3 |-> client_serialize(ciphertext(k - 1).val)])

\* ------------------------------- PROOF_OF_REAL_FHE_SIMPLE.rs, PROOF_OF_REAL_FHE.rs
SIMPLE_PLAINTEXT_MODULUS == 1024

\* A ciphertext modulus of 1000, which the plaintext modulus does not divide
simple_modulus_small == U64(SIMPLE_PLAINTEXT_MODULUS - 24)

\* 2^40 = 256 * 2^32
SIMPLE_CIPHERTEXT_MODULUS == <<0, 0, 256, 0>>

SIMPLE_POLYNOMIAL_DEGREE == 8

\* PureRustFheRuntime::new of the standalone programs
SimpleRuntime_new == [noise_seed |-> U64(12345)]

\* The values seed takes in n rounds of
\* seed = seed.wrapping_mul(1103515245).wrapping_add(12345)
RECURSIVE simple_seeds(_, _)
simple_seeds(seed, n) ==
    IF n = 0 THEN <<>>
    ELSE LET before == simple_seeds(seed, n - 1)
             last   == IF n = 1 THEN seed ELSE before[n - 1]
         IN  Append(before, U64WrappingAdd(U64WrappingMul(last, U64(1103515245)), U64(12345)))

\* A key generation that advances the seed between the secret and the public
\* coefficient, so that the two are drawn separately
simple_generate_keys_two_draws(self) ==
    LET seeds == simple_seeds(self.noise_seed, SIMPLE_POLYNOMIAL_DEGREE * 2)
    IN  [public_key  |-> [key_data |-> [i \in 1..SIMPLE_POLYNOMIAL_DEGREE |->
                             U64Mod(seeds[2 * i], SIMPLE_CIPHERTEXT_MODULUS)]],
         private_key |-> [secret_data |-> [i \in 1..SIMPLE_POLYNOMIAL_DEGREE |->
                             U64Mod(seeds[2 * i - 1], U64(SIMPLE_PLAINTEXT_MODULUS))]]]

\* PureRustFheRuntime::generate_keys of PROOF_OF_REAL_FHE_SIMPLE.rs
simple_generate_keys(self) ==
    LET seeds == simple_seeds(self.noise_seed, SIMPLE_POLYNOMIAL_DEGREE)
    IN  [public_key  |-> [key_data |-> [i \in 1..SIMPLE_POLYNOMIAL_DEGREE |->
                             U64Mod(seeds[i], SIMPLE_CIPHERTEXT_MODULUS)]],
         private_key |-> [secret_data |-> [i \in 1..SIMPLE_POLYNOMIAL_DEGREE |->
                             U64Mod(seeds[i], U64(SIMPLE_PLAINTEXT_MODULUS))]]]

\* pure_rust_fhe::PureRustFheRuntime::generate_keys of PROOF_OF_REAL_FHE.rs, with
\* the constants of that module
proof_generate_keys(self) ==
    LET plaintext_modulus  == U64(1024)
        ciphertext_modulus == <<0, 0, 256, 0>>
        polynomial_degree  == 8
        seeds              == simple_seeds(self.noise_seed, polynomial_degree)
    IN  [public_key  |-> [key_data |-> [i \in 1..polynomial_degree |->
                             U64Mod(seeds[i], ciphertext_modulus)]],
         private_key |-> [secret_data |-> [i \in 1..polynomial_degree |->
                             U64Mod(seeds[i], plaintext_modulus)]]]

\* PureRustFheRuntime::encrypt of PROOF_OF_REAL_FHE_SIMPLE.rs: the plaintext in
\* coefficient 0, the other coefficients from the recurrence started at
\* noise_seed + plaintext_val
simple_encrypt(self, plaintext, public_key) ==
    LET plaintext_val == U64Mod(I64AsU64(plaintext.val), U64(SIMPLE_PLAINTEXT_MODULUS))
        noise == simple_seeds(U64WrappingAdd(self.noise_seed, plaintext_val),
                              SIMPLE_POLYNOMIAL_DEGREE * 2 - 1)
    IN  Ok(Cipher([i \in 1..(SIMPLE_POLYNOMIAL_DEGREE * 2) |->
                     IF i = 1 THEN plaintext_val
                     ELSE U64Mod(noise[i - 1], SIMPLE_CIPHERTEXT_MODULUS)]))

\* pure_rust_fhe::PureRustFheRuntime::encrypt of PROOF_OF_REAL_FHE.rs: the
\* recurrence starts at noise_seed
proof_encrypt(self, plaintext, public_key) ==
    LET plaintext_modulus  == U64(1024)
        ciphertext_modulus == <<0, 0, 256, 0>>
        polynomial_degree  == 8
        plaintext_val      == U64Mod(I64AsU64(plaintext.val), plaintext_modulus)
        noise              == simple_seeds(self.noise_seed, polynomial_degree * 2 - 1)
    IN  Ok(Cipher([i \in 1..(polynomial_degree * 2) |->
                     IF i = 1 THEN plaintext_val
                     ELSE U64Mod(noise[i - 1], ciphertext_modulus)]))

\* impl Add for Cipher<Signed> of the standalone programs.  The operands a test
\* adds are below Q = 2^40, so the native sum does not overflow.
simple_add(self, other) ==
    Cipher([i \in 1..(SIMPLE_POLYNOMIAL_DEGREE * 2) |->
              U64Mod(U64WrappingAdd(self.ciphertext_data[i], other.ciphertext_data[i]),
                     SIMPLE_CIPHERTEXT_MODULUS)])

\* PureRustFheRuntime::decrypt of the standalone programs
simple_decrypt(ciphertext, private_key) ==
    LET decrypted_val == U64Mod(ciphertext.ciphertext_data[1], U64(SIMPLE_PLAINTEXT_MODULUS))
    IN  Ok(Signed(U64ToNat(decrypted_val)))

\* ------------------------------------------------ inputs of the runs
\* What thread_rng can return to a key generation: secret coefficients below P,
\* public coefficients below Q.
SmallKeyRng ==
    [secret_data |-> [i \in 1..POLYNOMIAL_DEGREE |-> U64(3 * i)],
     key_data    |-> [i \in 1..POLYNOMIAL_DEGREE |-> U64(7 * i)]]

LargeKeyRng ==
    [secret_data |-> [i \in 1..POLYNOMIAL_DEGREE |-> U64(PLAINTEXT_MODULUS - i)],
     key_data    |-> [i \in 1..POLYNOMIAL_DEGREE |-> <<i, 0, 0, 512>>]]

KeyRng == {SmallKeyRng, LargeKeyRng}

\* floor(|sample|) of the Gaussian samples one encryption takes: no noise, the
\* largest noise below MAX_NOISE_BOUND, and a sample beyond the bound
NoNoise == [i \in 1..(POLYNOMIAL_DEGREE * 2) |-> 0]

NoiseDraws ==
    { NoNoise,
      [i \in 1..(POLYNOMIAL_DEGREE * 2) |-> IF i = 1 THEN MAX_NOISE_BOUND - 1 ELSE i],
      [i \in 1..(POLYNOMIAL_DEGREE * 2) |-> IF i = 1 THEN MAX_NOISE_BOUND + 1 ELSE 9 - (i % 10)] }

\* i64 plaintexts handed to the guest's encrypt
GuestPlaintexts == {-1, 0, 5, 32768, 32769, 65536, 65537}

\* ------------------------------------------------------ the state
VARIABLES
    runtime,       \* the guest's PureRustFheRuntime
    pt1, pt2,      \* the plaintexts given to encrypt
    ct1, ct2,      \* Option<Result<Cipher, FheError>>: what encrypt returned
    ct_sum,        \* Option<Cipher>: ct1 + ct2
    decrypted,     \* Option: the ciphertext and key of a decrypt call, and its result
    serialized,    \* Option: the ciphertext serialized and its bytes
    deserialized,  \* Option: the bytes given to deserialize_ciphertext and its result
    challenger,        \* Option<ExternalChallenger>
    rng_used,          \* what thread_rng returned to create_challenge
    challenge,         \* Option<ChallengeInput>: what create_challenge returned
    executor_received, \* Option: the argument of execute_zkvm_with_challenge
    zkvm_result,       \* Option: the receipt and result ciphertexts the executor returned
    verification,      \* Option<VerificationResult>
    dd_calls,          \* the results verify_zkvm_result gave to deserialize_and_decrypt
    receipt_verdict,   \* Option<bool>: what the receipt verifier answered
    public_key_seen,   \* Option<PublicKey>: what get_public_key returned
    completeness,      \* Option: the outcome of a round with an honest executor
    called,            \* Option: a single call of one operation, its input and output
    test_results,      \* FheProofProtocol::test_results
    reverification,    \* Option<VerificationResult>: a second verify_zkvm_result call
    tally_run,         \* Option: the input the guest read and what its thread_rng returns
    tally_pos,         \* the number of votes the guest's loop has been through
    tallies,           \* Option: <<tally_option1, tally_option2, tally_option3>>
    tally_output,      \* Option: the VoteTallyOutput committed, or the panic
    standalone         \* Option: the runtime, keys and values of a standalone program's test

guest_vars == <<runtime, pt1, pt2, ct1, ct2, ct_sum, decrypted, serialized, deserialized>>

challenger_vars ==
    <<challenger, rng_used, challenge, executor_received, zkvm_result,
      verification, dd_calls, receipt_verdict, public_key_seen, completeness>>

\* The state of the single calls and of the protocol's test history
\* The state of the guest program
tally_vars == <<tally_run, tally_pos, tallies, tally_output>>

ext_vars == <<called, test_results, reverification, standalone, tally_vars>>

vars == <<guest_vars, challenger_vars, ext_vars>>

\* Nothing has run: a fresh guest runtime, no challenger yet
Init ==
    /\ runtime = PureRustFheRuntime_new
    /\ pt1 = None /\ pt2 = None
    /\ ct1 = None /\ ct2 = None /\ ct_sum = None
    /\ decrypted = None /\ serialized = None /\ deserialized = None
    /\ challenger = None /\ rng_used = None /\ challenge = None
    /\ executor_received = None /\ zkvm_result = None
    /\ verification = None /\ dd_calls = <<>>
    /\ receipt_verdict = None /\ public_key_seen = None
    /\ completeness = None
    /\ called = None /\ test_results = <<>> /\ reverification = None /\ standalone = None
    /\ tally_run = None /\ tally_pos = 0 /\ tallies = None /\ tally_output = None

\* The ciphertexts the driver holds, by name
Held ==
    (IF ct1.some /\ ct1.val.ok THEN {"ct1"} ELSE {})
        \cup (IF ct2.some /\ ct2.val.ok THEN {"ct2"} ELSE {})
        \cup (IF ct_sum.some THEN {"ct_sum"} ELSE {})

HeldCipher(name) ==
    IF name = "ct1" THEN ct1.val.val
    ELSE IF name = "ct2" THEN ct2.val.val
    ELSE ct_sum.val

\* ------------------------------------ the guest scheme's driver
\* (the steps of test_basic_fhe_operations and test_serialization)
\* let (public_key, private_key) = runtime.generate_keys();
GenerateKeys ==
    /\ ~runtime.public_key.some
    /\ \E rng \in KeyRng : runtime' = generate_keys(runtime, rng).self
    /\ UNCHANGED <<pt1, pt2, ct1, ct2, ct_sum, decrypted, serialized, deserialized,
                   challenger_vars, ext_vars>>

\* let ciphertext1 = runtime.encrypt(plaintext1, &public_key)
Encrypt1 ==
    /\ runtime.public_key.some /\ ~ct1.some
    /\ \E val \in GuestPlaintexts, draws \in NoiseDraws :
          /\ pt1' = Some(Signed(val))
          /\ ct1' = Some(encrypt(Signed(val), runtime.public_key.val, draws))
    /\ UNCHANGED <<runtime, pt2, ct2, ct_sum, decrypted, serialized, deserialized,
                   challenger_vars, ext_vars>>

\* let ciphertext2 = runtime.encrypt(plaintext2, &public_key)
Encrypt2 ==
    /\ ct1.some /\ ~ct2.some
    /\ \E val \in GuestPlaintexts, draws \in NoiseDraws :
          /\ pt2' = Some(Signed(val))
          /\ ct2' = Some(encrypt(Signed(val), runtime.public_key.val, draws))
    /\ UNCHANGED <<runtime, pt1, ct1, ct_sum, decrypted, serialized, deserialized,
                   challenger_vars, ext_vars>>

\* let result_cipher = ciphertext1 + ciphertext2
AddCiphers ==
    /\ {"ct1", "ct2"} \subseteq Held /\ ~ct_sum.some
    /\ ct_sum' = Some(add(ct1.val.val, ct2.val.val))
    /\ UNCHANGED <<runtime, pt1, pt2, ct1, ct2, decrypted, serialized, deserialized,
                   challenger_vars, ext_vars>>

\* runtime.decrypt(&cipher, &private_key), with the runtime's own private key
\* or with the private key of another key generation
Decrypt ==
    /\ ~decrypted.some /\ ~serialized.some
    /\ \E name \in Held, rng \in KeyRng :
          LET private_key == generate_keys(PureRustFheRuntime_new, rng).private_key
          IN  decrypted' = Some([of |-> name, private_key |-> private_key,
                                 result |-> decrypt(HeldCipher(name), private_key)])
    /\ UNCHANGED <<runtime, pt1, pt2, ct1, ct2, ct_sum, serialized, deserialized,
                   challenger_vars, ext_vars>>

\* let serialized = ciphertext.serialize()
Serialize ==
    /\ ~decrypted.some /\ ~serialized.some
    /\ \E name \in Held :
          serialized' = Some([of |-> name, bytes |-> serialize(HeldCipher(name))])
    /\ UNCHANGED <<runtime, pt1, pt2, ct1, ct2, ct_sum, decrypted, deserialized,
                   challenger_vars, ext_vars>>

\* The byte strings handed to deserialize_ciphertext: the serialized bytes, the
\* bytes without their last one, the bytes and one more
Received(bytes) == {bytes, SubSeq(bytes, 1, Len(bytes) - 1), Append(bytes, 0)}

\* runtime.deserialize_ciphertext(&data)
Deserialize ==
    /\ serialized.some /\ ~deserialized.some
    /\ \E data \in Received(serialized.val.bytes) :
          deserialized' = Some([data |-> data, result |-> deserialize_ciphertext(data)])
    /\ UNCHANGED <<runtime, pt1, pt2, ct1, ct2, ct_sum, decrypted, serialized,
                   challenger_vars, ext_vars>>

NextGuest ==
    \/ GenerateKeys
    \/ Encrypt1
    \/ Encrypt2
    \/ AddCiphers
    \/ Decrypt
    \/ Serialize
    \/ Deserialize

SpecGuest == Init /\ [][NextGuest]_vars

\* ------------------------------------ the challenge protocol's driver
\* (FheProofProtocol::run_proof_test and run_challenge_protocol)
MaxVotes == 2

\* rng.gen_range(0..3)
VoteOptions == 0..2

\* What thread_rng returns to create_challenge(test_id, num_votes)
ChallengeRng(num_votes) ==
    { [i \in 1..num_votes |-> [plaintext_val |-> v[i], draws |-> d]] :
        v \in [1..num_votes -> VoteOptions], d \in NoiseDraws }

\* receipt: vec![0u8; 32]
PlaceholderReceipt == [i \in 1..32 |-> 0]

\* vec![0u8; 512]
ZeroBlob == [i \in 1..(CHALLENGER_POLYNOMIAL_DEGREE * 2 * 8) |-> 0]

\* What the executor is meant to compute: the guest's homomorphic addition of
\* challenge ciphertexts lo..hi (1-based), the range halved at each level
RECURSIVE HomomorphicSum(_, _, _)
HomomorphicSum(ciphertexts, lo, hi) ==
    IF lo = hi THEN deserialize_ciphertext(ciphertexts[lo]).val
    ELSE add(HomomorphicSum(ciphertexts, lo, (lo + hi) \div 2),
             HomomorphicSum(ciphertexts, (lo + hi) \div 2 + 1, hi))

HonestResult(input) ==
    serialize(HomomorphicSum(input.challenge_ciphertexts, 1, Len(input.challenge_ciphertexts)))

\* Result lists an executor (untrusted) may return for the input it received
ExecutorResults(input) ==
    LET cts == input.challenge_ciphertexts
        n   == Len(cts)
    IN  { <<HonestResult(input)>>,
          <<HonestResult(input), ZeroBlob>>,
          cts,
          [i \in 1..n |-> cts[n + 1 - i]],
          <<cts[1]>>,
          <<[i \in 1..Len(cts[1]) |-> 1]>>,
          [i \in 1..n |-> ZeroBlob],
          [i \in 1..(n + 1) |-> ZeroBlob],
          <<>>,
          <<SubSeq(cts[1], 1, Len(cts[1]) - 1)>>,
          cts \o <<Append(cts[1], 0)>>,
          <<cts[1], <<>>>> \o cts }

\* let challenger = ExternalChallenger::new()
NewChallenger ==
    /\ ~challenger.some
    /\ \E rng \in KeyRng : challenger' = Some(ExternalChallenger_new(rng))
    /\ UNCHANGED <<rng_used, challenge, executor_received, zkvm_result,
                   verification, dd_calls, receipt_verdict, public_key_seen,
                   completeness, guest_vars, ext_vars>>

\* let challenge_input = self.challenger.create_challenge(test_id, num_challenges)
CreateChallenge ==
    /\ challenger.some /\ ~challenge.some
    /\ \E num_votes \in 1..MaxVotes :
          \E rng \in ChallengeRng(num_votes) :
             /\ rng_used' = Some(rng)
             /\ challenge' = Some(create_challenge(challenger.val, "t1", num_votes, rng, 1))
    /\ UNCHANGED <<challenger, executor_received, zkvm_result,
                   verification, dd_calls, receipt_verdict, public_key_seen,
                   completeness, guest_vars, ext_vars>>

\* self.execute_zkvm_with_challenge(&challenge_input)
ExecuteZkvmWithChallenge ==
    /\ challenge.some /\ ~executor_received.some
    /\ executor_received' = Some(challenge.val)
    /\ UNCHANGED <<challenger, rng_used, challenge, zkvm_result,
                   verification, dd_calls, receipt_verdict, public_key_seen,
                   completeness, guest_vars, ext_vars>>

\* The executor hands back a receipt and the result ciphertexts of the journal
ExecutorReturns ==
    /\ executor_received.some /\ ~zkvm_result.some
    /\ \E results \in ExecutorResults(executor_received.val) :
          zkvm_result' = Some([receipt |-> PlaceholderReceipt, result_ciphertexts |-> results])
    /\ UNCHANGED <<challenger, rng_used, challenge, executor_received,
                   verification, dd_calls, receipt_verdict, public_key_seen,
                   completeness, guest_vars, ext_vars>>

\* challenger.verify_zkvm_result(&challenge_input, &receipt, &result_ciphertexts)
VerifyZkvmResult ==
    /\ zkvm_result.some /\ ~verification.some
    /\ LET self    == challenger.val
           receipt == zkvm_result.val.receipt
           results == zkvm_result.val.result_ciphertexts
       IN  /\ verification' = Some(verify_zkvm_result(self, challenge.val, receipt, results))
           /\ receipt_verdict' = Some(verify_receipt(self, receipt))
           /\ dd_calls' = verify_after_receipt(self, challenge.val,
                                               verify_receipt(self, receipt), results).calls
    /\ UNCHANGED <<challenger, rng_used, challenge, executor_received, zkvm_result,
                   public_key_seen,
                   completeness, guest_vars, ext_vars>>

\* A second call on a challenger that keeps one log for all its calls
VerifyAgainWithSharedLog ==
    /\ verification.some /\ ~reverification.some
    /\ LET second == verify_zkvm_result(challenger.val, challenge.val,
                                        zkvm_result.val.receipt,
                                        zkvm_result.val.result_ciphertexts)
       IN  reverification' =
               Some([second EXCEPT !.verification_log =
                                       verification.val.verification_log \o @])
    /\ UNCHANGED <<guest_vars, challenger_vars, called, test_results, standalone, tally_vars>>

\* challenger.verify_zkvm_result(&challenge_input, &receipt, &result_ciphertexts)
\* once more, with the arguments of the first call
VerifyAgain ==
    /\ verification.some /\ ~reverification.some
    /\ reverification' = Some(verify_zkvm_result(challenger.val, challenge.val,
                                                 zkvm_result.val.receipt,
                                                 zkvm_result.val.result_ciphertexts))
    /\ UNCHANGED <<guest_vars, challenger_vars, called, test_results, standalone, tally_vars>>

\* challenger.get_public_key()
GetPublicKey ==
    /\ challenger.some /\ ~public_key_seen.some
    /\ public_key_seen' = Some(get_public_key(challenger.val))
    /\ UNCHANGED <<challenger, rng_used, challenge, executor_received, zkvm_result,
                   verification, dd_calls, receipt_verdict,
                   completeness, guest_vars, ext_vars>>

Next ==
    \/ NewChallenger
    \/ CreateChallenge
    \/ ExecuteZkvmWithChallenge
    \/ ExecutorReturns
    \/ VerifyZkvmResult
    \/ VerifyAgain
    \/ GetPublicKey

Spec == Init /\ [][Next]_vars

\* ----------------------- the protocol with its receipt verifier
\* What the receipt verifier consulted by verify_zkvm_result can answer
ReceiptVerdicts == BOOLEAN

\* challenger.verify_zkvm_result(...), the receipt verifier answering verdict
VerifyWithVerifier ==
    /\ zkvm_result.some /\ ~verification.some
    /\ \E verdict \in ReceiptVerdicts :
          LET self    == challenger.val
              results == zkvm_result.val.result_ciphertexts
          IN  /\ receipt_verdict' = Some(verdict)
              /\ verification' = Some(verify_after_receipt(self, challenge.val,
                                                           verdict, results).result)
              /\ dd_calls' = verify_after_receipt(self, challenge.val, verdict, results).calls
    /\ UNCHANGED <<challenger, rng_used, challenge, executor_received, zkvm_result,
                   public_key_seen,
                   completeness, guest_vars, ext_vars>>

NextCollab ==
    \/ NewChallenger
    \/ CreateChallenge
    \/ ExecuteZkvmWithChallenge
    \/ ExecutorReturns
    \/ VerifyWithVerifier
    \/ GetPublicKey

SpecCollab == Init /\ [][NextCollab]_vars

\* ----------------------- rounds with an honest executor
\* The fewest ballots whose plaintexts (each at most 2) sum past the plaintext modulus
LargeCount == CHALLENGER_PLAINTEXT_MODULUS \div 2 + 1

\* What thread_rng returns to create_challenge(test_id, LargeCount) when every
\* plaintext drawn is 2 and every Gaussian sample is below 1
LargeChallengeRng == { [i \in 1..LargeCount |-> [plaintext_val |-> 2, draws |-> NoNoise]] }

\* The verification of the honest result for input, with the count and the
\* plaintext sum of the challenge
CompletenessOutcome(self, input) ==
    [num_votes     |-> Len(input.challenge_ciphertexts),
     plaintext_sum |-> Sum(input.challenge_metadata.challenge_plaintexts),
     verification  |-> verify_zkvm_result(self, input, PlaceholderReceipt,
                                          <<HonestResult(input)>>)]

\* FheProofProtocol::new: the protocol owns its challenger from construction
InitProtocol ==
    /\ runtime = PureRustFheRuntime_new
    /\ pt1 = None /\ pt2 = None
    /\ ct1 = None /\ ct2 = None /\ ct_sum = None
    /\ decrypted = None /\ serialized = None /\ deserialized = None
    /\ challenger = Some(ExternalChallenger_new(SmallKeyRng))
    /\ rng_used = None /\ challenge = None
    /\ executor_received = None /\ zkvm_result = None
    /\ verification = None /\ dd_calls = <<>>
    /\ receipt_verdict = None /\ public_key_seen = None
    /\ completeness = None
    /\ called = None /\ test_results = <<>> /\ reverification = None /\ standalone = None
    /\ tally_run = None /\ tally_pos = 0 /\ tallies = None /\ tally_output = None

\* One round of run_proof_test on a fresh protocol, the executor returning the
\* homomorphic sum of the challenge ciphertexts: create_challenge, the honest
\* result, verify_zkvm_result.  Only the outcome is kept.
CompletenessRound ==
    /\ challenger.some /\ ~challenge.some /\ ~public_key_seen.some /\ ~completeness.some
    /\ \E rng \in LargeChallengeRng :
          completeness' =
              Some(CompletenessOutcome(challenger.val,
                       create_challenge(challenger.val, "large", Len(rng), rng, 1)))
    /\ UNCHANGED <<challenger, rng_used, challenge, executor_received, zkvm_result,
                   verification, dd_calls, receipt_verdict, public_key_seen,
                   guest_vars, ext_vars>>

NextLarge ==
    \/ CreateChallenge
    \/ ExecuteZkvmWithChallenge
    \/ ExecutorReturns
    \/ VerifyZkvmResult
    \/ GetPublicKey
    \/ CompletenessRound

SpecLarge == InitProtocol /\ [][NextLarge]_vars

\* ----------------------- the proof tests of one FheProofProtocol
\* (demonstrate_mathematical_proof: run_proof_test called again and again on
\* the protocol that owns the challenger)
MaxTests == 2

\* FheProofProtocol::simulate_fhe_results: the journal of the simulated execution
simulate_fhe_results(challenge_input) ==
    LET num_results == Len(challenge_input.challenge_ciphertexts) + 1
        result_size == 32 * 2 * 8
    IN  [i \in 1..(num_results * result_size) |-> 0]

\* FheProofProtocol::extract_result_ciphertexts
extract_result_ciphertexts(journal_data) ==
    LET result_size == 32 * 2 * 8
        num_results == Len(journal_data) \div result_size
    IN  [i \in 1..num_results |->
            Slice(journal_data, (i - 1) * result_size, (i - 1) * result_size + result_size)]

\* run_proof_test begins: self.challenger.create_challenge(test_id, num_challenges)
RunProofTest ==
    /\ Len(test_results) < MaxTests
    /\ CreateChallenge

\* execute_zkvm_with_challenge returns Some(simulated_result); the result
\* ciphertexts are those verify_zkvm_proof extracts from its journal
SimulatedExecution ==
    /\ executor_received.some /\ ~zkvm_result.some
    /\ zkvm_result' =
           Some([receipt |-> PlaceholderReceipt,
                 result_ciphertexts |->
                     extract_result_ciphertexts(simulate_fhe_results(executor_received.val))])
    /\ UNCHANGED <<challenger, rng_used, challenge, executor_received,
                   verification, dd_calls, receipt_verdict, public_key_seen,
                   completeness, guest_vars, ext_vars>>

\* run_proof_test ends: self.test_results.push(test_result), and its locals are gone
StoreTestResult ==
    /\ verification.some
    /\ test_results' =
           Append(test_results,
                  [test_id         |-> challenge.val.challenge_metadata.test_id,
                   challenge_input |-> challenge.val,
                   zkvm_result     |-> zkvm_result,
                   verification    |-> verification,
                   proof_valid     |-> verification.val.success])
    /\ rng_used' = None /\ challenge' = None /\ executor_received' = None
    /\ zkvm_result' = None /\ verification' = None
    /\ dd_calls' = <<>> /\ receipt_verdict' = None
    /\ UNCHANGED <<challenger, public_key_seen, completeness, guest_vars,
                   called, standalone, reverification, tally_vars>>

NextTests ==
    \/ NewChallenger
    \/ RunProofTest
    \/ ExecuteZkvmWithChallenge
    \/ SimulatedExecution
    \/ VerifyZkvmResult
    \/ StoreTestResult

SpecTests == Init /\ [][NextTests]_vars

\* ----------------------- the guest program
\* (main and tally_encrypted_votes_with_fhe, one loop iteration per step)
MaxShortVotes == 2

\* An EncryptedVote for choice (1..3) whose vector was encrypted with the guest scheme
GuestVote(choice, draws) ==
    [voter_address |-> "guest scheme",
     encrypted_vote_vector |->
         [k \in 1..3 |->
             serialize(encrypt(Signed(IF k = choice THEN 1 ELSE 0),
                               generate_keys(PureRustFheRuntime_new, SmallKeyRng).public_key,
                               draws).val)],
     signature |-> "signature",
     actual_choice |-> choice]

\* An EncryptedVote whose vector is what FheClient::encrypt_vote_vector returned
ClientVote(choice, draws) ==
    [voter_address |-> "host client",
     encrypted_vote_vector |->
         encrypt_vote_vector(FheClient_new(SmallKeyRng), choice, <<draws, draws, draws>>).val,
     signature |-> "signature",
     actual_choice |-> choice]

\* The votes of the short inputs: guest-scheme votes for each option and each
\* noise pattern, client votes, and votes that fail a validation of the loop (two
\* elements only; a third element of MAX_CIPHERTEXT_SIZE + 1 bytes; a second
\* element one byte short)
Votes ==
    LET draws(k) == CHOOSE d \in NoiseDraws : d[1] = (IF k = 1 THEN MAX_NOISE_BOUND - 1
                                                     ELSE IF k = 2 THEN 0
                                                     ELSE MAX_NOISE_BOUND + 1)
        valid    == GuestVote(1, draws(2))
    IN  { GuestVote(k, draws(k)) : k \in 1..3 }
          \cup { ClientVote(1, draws(2)), ClientVote(2, draws(1)) }
          \cup { [valid EXCEPT !.voter_address = "two elements",
                               !.encrypted_vote_vector = SubSeq(@, 1, 2)],
                 [valid EXCEPT !.voter_address = "oversized element",
                               !.encrypted_vote_vector[3] =
                                   [i \in 1..(MAX_CIPHERTEXT_SIZE + 1) |-> 0]],
                 [valid EXCEPT !.voter_address = "undeserializable element",
                               !.encrypted_vote_vector[2] = SubSeq(@, 1, Len(@) - 1)] }

\* What a run of the guest reads and draws: the input of env::read(), the values
\* thread_rng returns to generate_keys and the samples of the three encryptions
\* of zero.  Short inputs of any votes; MAX_VOTES votes for option 1, every
\* encryption with the largest noise; MAX_VOTES + 1 votes; and one vote whose
\* third element is the guest scheme's encryption of P - 1, the largest plaintext
\* encrypt accepts.
TallyRuns ==
    LET MaxNoise == CHOOSE d \in NoiseDraws : d[1] = MAX_NOISE_BOUND - 1
        Draws    == { [rng |-> SmallKeyRng, draws |-> <<NoNoise, NoNoise, NoNoise>>],
                      [rng |-> LargeKeyRng, draws |-> <<MaxNoise, NoNoise, MaxNoise>>] }
    IN  { [input |-> [encrypted_votes |-> votes, times |-> 1],
           rng |-> d.rng, draws |-> d.draws] :
            votes \in UNION { [1..n -> Votes] : n \in 0..MaxShortVotes }, d \in Draws }
          \cup { [input |-> [encrypted_votes |-> <<GuestVote(1, MaxNoise)>>, times |-> times],
                  rng |-> SmallKeyRng, draws |-> <<MaxNoise, MaxNoise, MaxNoise>>] :
                 times \in {MAX_VOTES, MAX_VOTES + 1} }
          \cup { [input |-> [encrypted_votes |->
                                <<[GuestVote(3, NoNoise) EXCEPT
                                      !.voter_address = "largest plaintext",
                                      !.encrypted_vote_vector[3] =
                                          serialize(encrypt(Signed(PLAINTEXT_MODULUS - 1),
                                              generate_keys(PureRustFheRuntime_new,
                                                            SmallKeyRng).public_key,
                                              NoNoise).val)]>>,
                              times |-> 1],
                  rng |-> SmallKeyRng, draws |-> <<NoNoise, NoNoise, NoNoise>>] }

\* main: let input = env::read(), and the panic on more than MAX_VOTES votes
GuestReadsInput ==
    /\ ~tally_run.some
    /\ \E run \in TallyRuns :
          /\ tally_run' = Some(run)
          /\ tally_output' = IF votes_len(run.input) > MAX_VOTES
                             THEN Some([panic |-> "DoS protection: Too many votes submitted"])
                             ELSE None
    /\ UNCHANGED <<guest_vars, challenger_vars, called, test_results, standalone, reverification,
                   tally_pos, tallies>>

\* tally_encrypted_votes_with_fhe up to its loop: the runtime, its keys, the
\* three encrypted tallies of zero
StartTally ==
    /\ tally_run.some /\ ~tallies.some /\ ~tally_output.some
    /\ LET keys == generate_keys(PureRustFheRuntime_new, tally_run.val.rng)
       IN  /\ runtime' = keys.self
           /\ tallies' = Some(zero_tallies(keys.public_key, tally_run.val.draws))
    /\ UNCHANGED <<pt1, pt2, ct1, ct2, ct_sum, decrypted, serialized, deserialized,
                   challenger_vars, called, test_results, standalone, reverification,
                   tally_run, tally_pos, tally_output>>

\* One iteration of the loop over input.encrypted_votes
TallyVote ==
    /\ tallies.some /\ ~tally_output.some
    /\ tally_pos < votes_len(tally_run.val.input)
    /\ tallies' = Some(tally_vote(tallies.val, vote_at(tally_run.val.input, tally_pos)))
    /\ tally_pos' = tally_pos + 1
    /\ UNCHANGED <<guest_vars, challenger_vars, called, test_results, standalone, reverification,
                   tally_run, tally_output>>

\* After the loop: the tallies are decrypted and main commits the output
CommitTally ==
    /\ tallies.some /\ ~tally_output.some
    /\ tally_pos = votes_len(tally_run.val.input)
    /\ tally_output' = Some(tally_result(tallies.val, runtime.private_key.val))
    /\ UNCHANGED <<guest_vars, challenger_vars, called, test_results, standalone, reverification,
                   tally_run, tally_pos, tallies>>

NextTally ==
    \/ GuestReadsInput
    \/ StartTally
    \/ TallyVote
    \/ CommitTally

SpecTally == Init /\ [][NextTally]_vars

\* ----------------------- single calls of the operations
\* (the calls a unit test makes on a runtime or on a challenger)
\* Byte buffers handed to a deserializer: empty, one byte, and lengths around
\* the 16 * POLYNOMIAL_DEGREE bytes of a ciphertext, filled with one byte value
Buffers ==
    LET expected_len == POLYNOMIAL_DEGREE * 2 * 8
    IN  { [i \in 1..len |-> fill] :
            len \in {0, 1, expected_len - 8, expected_len - 1, expected_len,
                     expected_len + 1, expected_len + 8, 2 * expected_len},
            fill \in {0, 1, 255} }

\* runtime.deserialize_ciphertext(&data) on a fresh runtime
CallDeserializeCiphertext ==
    /\ ~called.some
    /\ \E data \in Buffers :
          called' = Some([op |-> "deserialize_ciphertext", input |-> data,
                          output |-> deserialize_ciphertext(data)])
    /\ UNCHANGED <<guest_vars, challenger_vars, test_results, standalone, reverification, tally_vars>>

\* challenger.deserialize_and_decrypt(&data)
CallDeserializeAndDecrypt ==
    /\ challenger.some /\ ~called.some
    /\ \E data \in Buffers :
          called' = Some([op |-> "deserialize_and_decrypt", input |-> data,
                          output |-> deserialize_and_decrypt(challenger.val, data)])
    /\ UNCHANGED <<guest_vars, challenger_vars, test_results, standalone, reverification, tally_vars>>

\* challenger.encrypt(plaintext)
CallChallengerEncrypt ==
    /\ challenger.some /\ ~called.some
    /\ \E val \in GuestPlaintexts, draws \in NoiseDraws :
          called' = Some([op |-> "ExternalChallenger::encrypt", input |-> Signed(val),
                          output |-> challenger_encrypt(challenger.val, Signed(val), draws)])
    /\ UNCHANGED <<guest_vars, challenger_vars, test_results, standalone, reverification, tally_vars>>

\* client.runtime.encrypt(plaintext, &client.public_key) on a client built by FheClient::new
CallClientEncrypt ==
    /\ ~called.some
    /\ \E val \in GuestPlaintexts, draws \in NoiseDraws :
          called' = Some([op |-> "FheClient::encrypt", input |-> Signed(val),
                          output |-> client_encrypt(Signed(val),
                                                    FheClient_new(SmallKeyRng).public_key, draws)])
    /\ UNCHANGED <<guest_vars, challenger_vars, test_results, standalone, reverification, tally_vars>>

\* PureRustFheRuntime::new().generate_keys() in the guest, in
\* PROOF_OF_REAL_FHE_SIMPLE.rs and in PROOF_OF_REAL_FHE.rs
CallGenerateKeys ==
    /\ ~called.some
    /\ \/ \E rng \in KeyRng :
             LET keys == generate_keys(PureRustFheRuntime_new, rng)
             IN  called' = Some([op |-> "guest generate_keys", input |-> PureRustFheRuntime_new,
                                 output |-> [public_key  |-> keys.public_key,
                                             private_key |-> keys.private_key]])
       \/ called' = Some([op |-> "simple generate_keys", input |-> SimpleRuntime_new,
                          output |-> simple_generate_keys(SimpleRuntime_new)])
       \/ called' = Some([op |-> "proof generate_keys", input |-> SimpleRuntime_new,
                          output |-> proof_generate_keys(SimpleRuntime_new)])
    /\ UNCHANGED <<guest_vars, challenger_vars, test_results, standalone, reverification, tally_vars>>

\* Ciphertexts of 2n arbitrary 64-bit coefficients, as deserialize_ciphertext
\* can return them: all zero, all 2^64 - 1, all Q - 1, all Q, all 2^63, and
\* coefficients that differ from index to index
WideCiphers ==
    { Cipher([i \in 1..(POLYNOMIAL_DEGREE * 2) |-> c]) :
        c \in { U64Zero, <<Base - 1, Base - 1, Base - 1, Base - 1>>,
                <<Base - 1, Base - 1, Base - 1, 1023>>, CIPHERTEXT_MODULUS,
                <<0, 0, 0, 32768>> } }
    \cup { Cipher([i \in 1..(POLYNOMIAL_DEGREE * 2) |-> <<i, 7 * i, Base - i, Base - 1 - 1000 * i>>]),
           Cipher([i \in 1..(POLYNOMIAL_DEGREE * 2) |-> <<Base - i, 3 * i, i, 900 * i>>]) }

\* let result = cipher1 + cipher2
CallAdd ==
    /\ ~called.some
    /\ \E a \in WideCiphers, b \in WideCiphers :
          called' = Some([op |-> "add", input |-> <<a, b>>, output |-> add(a, b)])
    /\ UNCHANGED <<guest_vars, challenger_vars, test_results, standalone, reverification, tally_vars>>

\* Receipt byte strings handed to verify_zkvm_result: empty, the simulation's
\* 32 zero bytes, and 64 bytes that differ from one another
Receipts == { <<>>, PlaceholderReceipt, [i \in 1..64 |-> i] }

\* challenger.verify_zkvm_result(&challenge_input, &receipt, &result_ciphertexts)
\* called with one receipt and called with another, the other arguments the same
CallVerifyZkvmResult ==
    /\ challenger.some /\ ~called.some
    /\ \E rng \in ChallengeRng(1), receipt1 \in Receipts, receipt2 \in Receipts :
          LET self            == challenger.val
              challenge_input == create_challenge(self, "t1", 1, rng, 1)
          IN  \E result_ciphertexts \in ExecutorResults(challenge_input) :
                 called' =
                     Some([op |-> "verify_zkvm_result",
                           input |-> [challenge_input    |-> challenge_input,
                                      receipts           |-> <<receipt1, receipt2>>,
                                      result_ciphertexts |-> result_ciphertexts],
                           output |-> [receipt_valid |->
                                           <<verify_receipt(self, receipt1),
                                             verify_receipt(self, receipt2)>>,
                                       verification |->
                                           <<verify_zkvm_result(self, challenge_input,
                                                                receipt1, result_ciphertexts),
                                             verify_zkvm_result(self, challenge_input,
                                                                receipt2, result_ciphertexts)>>]])
    /\ UNCHANGED <<guest_vars, challenger_vars, test_results, standalone, reverification,
                   tally_vars>>

NextCalls ==
    \/ NewChallenger
    \/ CallDeserializeCiphertext
    \/ CallDeserializeAndDecrypt
    \/ CallChallengerEncrypt
    \/ CallClientEncrypt
    \/ CallGenerateKeys
    \/ CallAdd
    \/ CallVerifyZkvmResult

SpecCalls == Init /\ [][NextCalls]_vars

\* ------------------------------------------------------ the claims
\* ------------------------ the standalone programs' tests
\* (PROOF_OF_REAL_FHE_SIMPLE.rs and PROOF_OF_REAL_FHE.rs: each test builds a
\* runtime, generates keys and works on its own values)
MaxSummands == 3

MaxBallots == 3

\* noise_seed of a runtime: what new() sets, what test_key_dependency sets, and
\* the largest u64
StandaloneSeeds == {U64(12345), U64(54321), <<Base - 1, Base - 1, Base - 1, Base - 1>>}

\* Values the tests encrypt
StandalonePlaintexts == {0, 5, 42, 1023}

\* runtime.encrypt(plaintext, &public_key) of the program under test
runtime_encrypt(s, plaintext) ==
    IF s.program = "PROOF_OF_REAL_FHE_SIMPLE"
    THEN simple_encrypt(s.runtime, plaintext, s.public_key)
    ELSE proof_encrypt(s.runtime, plaintext, s.public_key)

\* let mut runtime = PureRustFheRuntime::new();
\* let (public_key, private_key) = runtime.generate_keys();
TestStart ==
    /\ ~standalone.some
    /\ \E program \in {"PROOF_OF_REAL_FHE_SIMPLE", "PROOF_OF_REAL_FHE"},
          seed \in StandaloneSeeds :
          LET rt   == [SimpleRuntime_new EXCEPT !.noise_seed = seed]
              keys == IF program = "PROOF_OF_REAL_FHE_SIMPLE"
                      THEN simple_generate_keys(rt) ELSE proof_generate_keys(rt)
          IN  standalone' =
                  Some([program |-> program, runtime |-> rt,
                        public_key |-> keys.public_key, private_key |-> keys.private_key,
                        test |-> "", terms |-> <<>>, sum |-> None, decrypted |-> None,
                        votes |-> <<>>, tallies |-> None, final_tallies |-> None,
                        pairs |-> <<>>])
    /\ UNCHANGED <<guest_vars, challenger_vars, called, test_results, reverification,
                   tally_vars>>

\* test_arbitrary_homomorphic_addition: one more value is encrypted and added
\* to the encrypted sum
TestEncryptAdd ==
    /\ standalone.some /\ standalone.val.test \in {"", "addition"}
    /\ Len(standalone.val.terms) < MaxSummands /\ ~standalone.val.decrypted.some
    /\ \E val \in StandalonePlaintexts :
          LET s         == standalone.val
              encrypted == runtime_encrypt(s, Signed(val)).val
          IN  standalone' =
                  Some([s EXCEPT !.test = "addition", !.terms = Append(@, val),
                                 !.sum = IF @.some THEN Some(simple_add(@.val, encrypted))
                                         ELSE Some(encrypted)])
    /\ UNCHANGED <<guest_vars, challenger_vars, called, test_results, reverification,
                   tally_vars>>

\* let decrypted_sum = runtime.decrypt(&encrypted_sum, &private_key).unwrap()
TestDecryptSum ==
    /\ standalone.some /\ standalone.val.test = "addition"
    /\ ~standalone.val.decrypted.some
    /\ standalone' =
           Some([standalone.val EXCEPT
                    !.decrypted = Some(simple_decrypt(standalone.val.sum.val,
                                                      standalone.val.private_key))])
    /\ UNCHANGED <<guest_vars, challenger_vars, called, test_results, reverification,
                   tally_vars>>

\* test_voting_homomorphism: the three tallies start as encryptions of zero
TestStartVoting ==
    /\ standalone.some /\ standalone.val.test = ""
    /\ LET s == standalone.val
       IN  standalone' =
               Some([s EXCEPT !.test = "voting",
                              !.tallies = Some([k \in 1..3 |->
                                                  runtime_encrypt(s, Signed(0)).val])])
    /\ UNCHANGED <<guest_vars, challenger_vars, called, test_results, reverification,
                   tally_vars>>

\* test_voting_homomorphism: one voter's one-hot vote is encrypted and added
TestVote ==
    /\ standalone.some /\ standalone.val.test = "voting"
    /\ Len(standalone.val.votes) < MaxBallots /\ ~standalone.val.final_tallies.some
    /\ \E choice \in 1..3 :
          LET s    == standalone.val
              vote == [k \in 1..3 |-> IF k = choice THEN 1 ELSE 0]
          IN  standalone' =
                  Some([s EXCEPT !.votes = Append(@, vote),
                                 !.tallies = Some([k \in 1..3 |->
                                     simple_add(s.tallies.val[k],
                                                runtime_encrypt(s, Signed(vote[k])).val)])])
    /\ UNCHANGED <<guest_vars, challenger_vars, called, test_results, reverification,
                   tally_vars>>

\* test_voting_homomorphism: the final tallies are decrypted
TestDecryptTallies ==
    /\ standalone.some /\ standalone.val.test = "voting"
    /\ ~standalone.val.final_tallies.some
    /\ LET s == standalone.val
       IN  standalone' =
               Some([s EXCEPT !.final_tallies =
                        Some([k \in 1..3 |->
                                simple_decrypt(s.tallies.val[k], s.private_key).val.val])])
    /\ UNCHANGED <<guest_vars, challenger_vars, called, test_results, reverification,
                   tally_vars>>

\* test_ciphertext_independence: the same value is encrypted twice with the
\* same runtime and public key; the values are taken in increasing order
TestEncryptTwice ==
    /\ standalone.some /\ standalone.val.test \in {"", "independence"}
    /\ Len(standalone.val.pairs) < Cardinality(StandalonePlaintexts)
    /\ LET s     == standalone.val
           rest  == StandalonePlaintexts \ {s.pairs[i].value : i \in 1..Len(s.pairs)}
           value == CHOOSE v \in rest : \A w \in rest : v <= w
           encrypted1 == runtime_encrypt(s, Signed(value)).val
           encrypted2 == runtime_encrypt(s, Signed(value)).val
       IN  standalone' =
               Some([s EXCEPT !.test = "independence",
                              !.pairs = Append(@, [value |-> value,
                                                   encrypted1 |-> encrypted1,
                                                   encrypted2 |-> encrypted2])])
    /\ UNCHANGED <<guest_vars, challenger_vars, called, test_results, reverification,
                   tally_vars>>

NextStandalone ==
    \/ TestStart
    \/ TestEncryptAdd
    \/ TestDecryptSum
    \/ TestStartVoting
    \/ TestVote
    \/ TestDecryptTallies
    \/ TestEncryptTwice

SpecStandalone == Init /\ [][NextStandalone]_vars

\* C1: in the guest scheme, for plaintexts a, b in [0,P) with a + b < P and every
\* noise encrypt can draw, decrypt(encrypt(a) + encrypt(b)) returns exactly a + b.
C1_ExactSum ==
    (decrypted.some /\ decrypted.val.of = "ct_sum"
        /\ pt1.val.val + pt2.val.val < PLAINTEXT_MODULUS)
    => decrypted.val.result = Ok(Signed(pt1.val.val + pt2.val.val))

\* The sum 32768 + 32768 = P - 1 was decrypted, the first ciphertext carrying
\* the largest noise encrypt can add
C1_Witness ==
    /\ decrypted.some /\ decrypted.val.of = "ct_sum"
    /\ pt1.val.val = 32768 /\ pt2.val.val = 32768
    /\ ct1.val.val.ciphertext_data[1]
         = U64WrappingAdd(U64WrappingMul(U64(32768), scaling_factor), U64(MAX_NOISE_BOUND - 1))
    /\ decrypted.val.result = Ok(Signed(65536))

\* C2: the homomorphic law holds modulo P when the plaintext sum wraps: for a, b
\* in [0,P) with a + b >= P (the noise of the two encryptions, below 2 * P/16, is
\* far below S/2), decrypt(encrypt(a) + encrypt(b)) equals (a + b) mod P.
C2_WrapLaw ==
    (decrypted.some /\ decrypted.val.of = "ct_sum"
        /\ pt1.val.val + pt2.val.val >= PLAINTEXT_MODULUS)
    => decrypted.val.result
         = Ok(Signed((pt1.val.val + pt2.val.val) % PLAINTEXT_MODULUS))

C4_SumCheck ==
    (/\ verification.some /\ receipt_verdict = Some(TRUE)
     /\ \A i \in 1..Len(zkvm_result.val.result_ciphertexts) :
           Len(zkvm_result.val.result_ciphertexts[i]) = CHALLENGER_POLYNOMIAL_DEGREE * 2 * 8)
    => LET results  == zkvm_result.val.result_ciphertexts
           values   == [i \in 1..Len(results) |->
                           deserialize_and_decrypt(challenger.val, results[i]).val.val]
           expected == Sum(challenge.val.challenge_metadata.challenge_plaintexts)
           actual   == Sum(values)
           v        == verification.val
       IN  /\ v.success <=> expected = actual
           /\ v.success => v.error = None /\ v.decrypted_results = Some(values)
           /\ ~v.success => v.error = Some([tag |-> "FHE arithmetic mismatch",
                                            expected |-> expected, got |-> actual])

\* A success on two results that come in another order than the plaintexts
C4_Witness ==
    /\ verification.some /\ verification.val.success
    /\ Len(verification.val.decrypted_results.val) = 2
    /\ verification.val.decrypted_results.val
         # challenge.val.challenge_metadata.challenge_plaintexts

\* C5: verify_zkvm_result takes the results in index order; at the first one that
\* fails to deserialize it returns a failure naming that result's position and
\* the underlying error, hands no later result to deserialize_and_decrypt,
\* returns no decrypted_results, and its log holds exactly the entries of the
\* results before the failing one.
C5_ShortCircuit ==
    (/\ verification.some /\ receipt_verdict = Some(TRUE)
     /\ \E i \in 1..Len(zkvm_result.val.result_ciphertexts) :
           Len(zkvm_result.val.result_ciphertexts[i]) # CHALLENGER_POLYNOMIAL_DEGREE * 2 * 8)
    => LET results == zkvm_result.val.result_ciphertexts
           size    == CHALLENGER_POLYNOMIAL_DEGREE * 2 * 8
           j       == CHOOSE i \in 1..Len(results) :
                         /\ Len(results[i]) # size
                         /\ \A k \in 1..(i - 1) : Len(results[k]) = size
           v       == verification.val
       IN  /\ ~v.success
           /\ v.error = Some([tag |-> "Decryption failed for result", result |-> j,
                              e |-> [tag |-> "Invalid ciphertext length",
                                     expected |-> size, actual |-> Len(results[j])]])
           /\ v.decrypted_results = None
           /\ v.verification_log
                = [k \in 1..(j - 1) |->
                     [entry |-> "Result decrypted", result |-> k,
                      value |-> deserialize_and_decrypt(challenger.val, results[k]).val.val]]
           /\ dd_calls = [k \in 1..j |-> k - 1]

\* The second of at least three results failed, after one was decrypted
C5_Witness ==
    /\ verification.some /\ verification.val.error.some
    /\ verification.val.error.val.tag = "Decryption failed for result"
    /\ verification.val.error.val.result = 2
    /\ Len(zkvm_result.val.result_ciphertexts) > 2
    /\ Len(verification.val.verification_log) = 1

\* C6: completeness: for every challenge create_challenge(test_id, count) returns
\* with count >= 1, when the executor returns the one ciphertext that is the
\* component-wise sum modulo Q of the challenge ciphertexts and the receipt is
\* accepted, verify_zkvm_result succeeds with decrypted_results = [sum of the
\* challenge plaintexts].
C6_Completeness ==
    /\ (verification.some /\ receipt_verdict = Some(TRUE)
          /\ zkvm_result.val.result_ciphertexts = <<HonestResult(challenge.val)>>)
       => /\ verification.val.success
          /\ verification.val.decrypted_results
               = Some(<<Sum(challenge.val.challenge_metadata.challenge_plaintexts)>>)
    /\ completeness.some
       => /\ completeness.val.verification.success
          /\ completeness.val.verification.decrypted_results
               = Some(<<completeness.val.plaintext_sum>>)

\* C7: the values that leave the challenger do not depend on its private key:
\* the ChallengeInput create_challenge returned, the one handed to the executor
\* and the value get_public_key returned are what a challenger with any other
\* private key would have produced.
C7_PrivateKeyStaysHome ==
    challenger.some =>
        \A rng \in KeyRng :
            LET other == [challenger.val EXCEPT
                             !.keys.private_key = generate_challenge_keys(rng).private_key]
                input == create_challenge(other, "t1", Len(rng_used.val), rng_used.val, 1)
            IN  /\ challenge.some => challenge.val = input
                /\ executor_received.some => executor_received.val = input
                /\ public_key_seen.some => public_key_seen.val = get_public_key(other)

\* The executor holds a challenge and get_public_key has been called
C7_Witness ==
    /\ executor_received.some /\ public_key_seen.some
    /\ challenger.val.keys.private_key # generate_challenge_keys(SmallKeyRng).private_key

\* C8: what the executor receives for a challenge is the parameters, the public
\* key and the serialized ciphertexts only: the challenge plaintexts kept in the
\* challenge metadata are no part of it.
C8_PayloadWithoutPlaintexts ==
    executor_received.some =>
        DOMAIN executor_received.val \subseteq {"parameters", "public_key", "challenge_ciphertexts"}

\* C9: decryption depends on the key: there are key pairs K1 # K2 and a plaintext
\* m in [0,P) with decrypt(encrypt(m, K1.public), K2.private) # m.  Stated where
\* a ciphertext has been decrypted with the private key of another key pair.
C9_KeyDependence ==
    (decrypted.some /\ decrypted.val.of = "ct1"
        /\ decrypted.val.private_key # runtime.private_key.val)
    =>
    \E k1 \in KeyRng, k2 \in KeyRng, m \in GuestPlaintexts, draws \in NoiseDraws :
        /\ k1 # k2 /\ m >= 0 /\ m < PLAINTEXT_MODULUS
        /\ decrypt(encrypt(Signed(m), generate_keys(PureRustFheRuntime_new, k1).public_key,
                           draws).val,
                   generate_keys(PureRustFheRuntime_new, k2).private_key)
             # Ok(Signed(m))

\* C10: for every ciphertext encrypt or the homomorphic addition produced,
\* deserialize_ciphertext(serialize(c)) succeeds with the coefficients of c.
C10_RoundTrip ==
    (deserialized.some /\ deserialized.val.data = serialized.val.bytes)
    => /\ deserialized.val.result.ok
       /\ deserialized.val.result.val.ciphertext_data
            = HeldCipher(serialized.val.of).ciphertext_data

\* The bytes of a homomorphic sum with a non-zero first coefficient came back
C10_Witness ==
    /\ deserialized.some /\ deserialized.val.data = serialized.val.bytes
    /\ serialized.val.of = "ct_sum"
    /\ ct_sum.val.ciphertext_data[1] # U64Zero
    /\ ct_sum.val.ciphertext_data[2] # U64Zero

\* C11: deserialize_ciphertext (guest) and deserialize_and_decrypt (challenger)
\* succeed on a buffer of exactly 16 * POLYNOMIAL_DEGREE bytes and fail on every
\* other length (0, 16n-1 and 16n+1 among them) with a length error that carries
\* the expected length 16n and the actual length.
C11_LengthLaw ==
    (called.some /\ called.val.op \in {"deserialize_ciphertext", "deserialize_and_decrypt"}) =>
        LET data     == called.val.input
            out      == called.val.output
            expected == 16 * (IF called.val.op = "deserialize_ciphertext"
                              THEN POLYNOMIAL_DEGREE ELSE CHALLENGER_POLYNOMIAL_DEGREE)
        IN  IF Len(data) = expected
            THEN out.ok
            ELSE /\ ~out.ok
                 /\ out.err.tag \in {"InvalidCiphertextLength", "Invalid ciphertext length"}
                 /\ out.err.expected = expected
                 /\ out.err.actual = Len(data)

\* The guest deserializer has refused a buffer one byte too long
C11_Witness ==
    /\ called.some /\ called.val.op = "deserialize_ciphertext"
    /\ Len(called.val.input) = 16 * POLYNOMIAL_DEGREE + 1
    /\ ~called.val.output.ok
    /\ called.val.output.err.actual = 16 * POLYNOMIAL_DEGREE + 1

\* C12: the guest's encrypt returns an error, and no ciphertext, for every
\* plaintext outside [0, P) (negative, or at least P), and returns a ciphertext
\* of 2 * POLYNOMIAL_DEGREE coefficients for every plaintext inside [0, P).
C12_EncryptRange ==
    \A call \in {<<pt1, ct1>>, <<pt2, ct2>>} :
        call[2].some =>
            LET plaintext == call[1].val
                out       == call[2].val
            IN  IF plaintext.val < 0 \/ plaintext.val >= PLAINTEXT_MODULUS
                THEN /\ ~out.ok
                     /\ out.err.tag = "EncryptionFailed"
                     /\ DOMAIN out = {"ok", "err"}
                ELSE /\ out.ok
                     /\ Len(out.val.ciphertext_data) = 2 * POLYNOMIAL_DEGREE

\* encrypt has refused the plaintext P and, in the same run, the plaintext -1
C12_Witness ==
    /\ ct1.some /\ pt1.val.val = PLAINTEXT_MODULUS /\ ~ct1.val.ok
    /\ ct2.some /\ pt2.val.val = -1 /\ ~ct2.val.ok

\* C13: ExternalChallenger::encrypt and the host client's encrypt report an error
\* for every plaintext outside [0, P) of their scheme (negative, or at least P)
\* instead of encrypting the value reduced modulo P.
C13_OutOfRangeReported ==
    (called.some /\ called.val.op \in {"ExternalChallenger::encrypt", "FheClient::encrypt"}) =>
        LET plaintext == called.val.input
            modulus   == IF called.val.op = "FheClient::encrypt"
                         THEN CLIENT_PLAINTEXT_MODULUS ELSE CHALLENGER_PLAINTEXT_MODULUS
        IN  (plaintext.val < 0 \/ plaintext.val >= modulus) => ~called.val.output.ok

C15_StructuredFailure ==
    verification.some =>
        LET v == verification.val
        IN  /\ DOMAIN v = {"success", "error", "decrypted_results", "verification_log"}
            /\ v.success \in BOOLEAN
            /\ v.error.some <=> ~v.success
            /\ ~v.success => v.error.some /\ v.verification_log # <<>>

\* C16: a challenger moves only forward through Uninitialized, KeysGenerated,
\* ChallengeCreated, AwaitingExecutorResult and ends in Verified or Failed.  A
\* verify step is taken only on a challenge this challenger created, and once the
\* challenger has produced a verification result no create_challenge step and no
\* verify step is taken on it any more.
C16_ForwardOnly ==
    [][LET create_step == challenge'.some /\ challenge' # challenge
           verify_step == verification'.some /\ verification' # verification
           has_verified == verification.some \/ test_results # <<>>
       IN  /\ verify_step =>
                 /\ challenge.some /\ challenge' = challenge
                 /\ challenge.val.public_key = challenger.val.keys.public_key
                 /\ executor_received = challenge
           /\ create_step => challenger.some /\ challenger' = challenger
           /\ has_verified => ~create_step /\ ~verify_step]_vars

\* C17: no generate_keys of the repository is a function of a fixed seed: whatever
\* key pair a freshly constructed runtime has returned, another freshly
\* constructed runtime of the same implementation can return a different one.
C17_KeysNotSeedDetermined ==
    (called.some /\ called.val.op \in {"guest generate_keys", "simple generate_keys",
                                       "proof generate_keys"}) =>
        LET guest_keys == { [public_key  |-> generate_keys(PureRustFheRuntime_new, rng).public_key,
                             private_key |-> generate_keys(PureRustFheRuntime_new, rng).private_key] :
                            rng \in KeyRng }
            outcomes == IF called.val.op = "guest generate_keys" THEN guest_keys
                        ELSE IF called.val.op = "simple generate_keys"
                        THEN {simple_generate_keys(SimpleRuntime_new)}
                        ELSE {proof_generate_keys(SimpleRuntime_new)}
        IN  \E other \in outcomes : other # called.val.output

\* C18: when every vote of an input of at most MAX_VOTES votes is a vector of three
\* ciphertexts that the guest scheme's encrypt produced for a one-hot choice, the
\* output of tally_encrypted_votes_with_fhe has optionK_count equal to the number
\* of votes for option K (K = 1, 2, 3) and total_votes equal to the number of
\* votes, whatever noise the encryptions drew.
C18_TallyCounts ==
    (/\ tally_output.some
     /\ "total_votes" \in DOMAIN tally_output.val
     /\ \A i \in 1..Len(tally_run.val.input.encrypted_votes) :
           LET v == tally_run.val.input.encrypted_votes[i]
           IN  \E d \in NoiseDraws : v = GuestVote(v.actual_choice, d)) =>
        LET input    == tally_run.val.input
            out      == tally_output.val
            votes(K) == input.times *
                            Cardinality({i \in 1..Len(input.encrypted_votes) :
                                            input.encrypted_votes[i].actual_choice = K})
        IN  /\ votes_len(input) <= MAX_VOTES
            /\ out.option1_count = votes(1)
            /\ out.option2_count = votes(2)
            /\ out.option3_count = votes(3)
            /\ out.total_votes = votes_len(input)

\* MAX_VOTES votes for option 1, each encrypted with the largest noise, were tallied
C18_Witness ==
    /\ tally_output.some
    /\ tally_pos = MAX_VOTES
    /\ "option1_count" \in DOMAIN tally_output.val
    /\ tally_output.val.option1_count = MAX_VOTES
    /\ tally_output.val.total_votes = MAX_VOTES

\* C19: in the guest's loop a vote is applied as a whole or not at all.  A vote
\* that fails a validation (a vector of other than EXPECTED_CANDIDATES elements,
\* an element above MAX_CIPHERTEXT_SIZE bytes, an element deserialize_ciphertext
\* refuses) leaves the three encrypted tallies as they were, and the loop goes on
\* to the next vote.
C19_VoteAtomic ==
    [][tally_pos' # tally_pos =>
          LET vote    == vote_at(tally_run.val.input, tally_pos)
              vector  == vote.encrypted_vote_vector
              invalid == \/ Len(vector) # EXPECTED_CANDIDATES
                         \/ \E idx \in 1..Len(vector) :
                               \/ Len(vector[idx]) > MAX_CIPHERTEXT_SIZE
                               \/ ~deserialize_ciphertext(vector[idx]).ok
          IN  /\ tally_pos' = tally_pos + 1
              /\ ~tally_output'.some
              /\ invalid => tallies' = tallies]_vars

\* C20: the three ciphertexts FheClient::encrypt_vote_vector produces for a choice
\* K are each accepted by the guest's deserialize_ciphertext, and the loop
\* iteration on that vote raises the guest's decrypted tally of option K by
\* exactly 1 and leaves the two other decrypted tallies as they were.
C20_ClientGuestInterop ==
    [][tally_pos' # tally_pos =>
          LET vote   == vote_at(tally_run.val.input, tally_pos)
              count(tally, k) == decrypt(tally.val[k], runtime.private_key.val).val.val
          IN  (\E d \in NoiseDraws : vote = ClientVote(vote.actual_choice, d)) =>
                  /\ \A k \in 1..3 : deserialize_ciphertext(vote.encrypted_vote_vector[k]).ok
                  /\ \A k \in 1..3 :
                        count(tallies', k) =
                            count(tallies, k) + (IF k = vote.actual_choice THEN 1 ELSE 0)]_vars

\* C21: the challenger's scheme matches the guest's.  The parameters P, Q and n
\* of a challenge are the guest's; when create_challenge has returned (and the
\* challenge has not yet been handed on), every ciphertext it serialized
\* is accepted by the guest's deserialize_ciphertext and is the ciphertext the
\* guest's encrypt builds from the same plaintext and the same noise draws (so
\* the noise bound is the same); and on every 16n-byte buffer of the challenge
\* and, once the executor has returned, of the result list handed to the
\* verification, deserialize_and_decrypt returns the plaintext that the guest's
\* deserialize_ciphertext followed by decrypt returns.
C21_SchemesMatch ==
    challenge.some =>
        LET self    == challenger.val
            input   == challenge.val
            latest  == IF zkvm_result.some /\ ~verification.some
                       THEN zkvm_result.val.result_ciphertexts
                       ELSE IF ~zkvm_result.some THEN input.challenge_ciphertexts
                       ELSE <<>>
            buffers == { latest[i] : i \in 1..Len(latest) }
        IN  /\ input.parameters.plaintext_modulus = PLAINTEXT_MODULUS
            /\ input.parameters.ciphertext_modulus = CIPHERTEXT_MODULUS
            /\ input.parameters.polynomial_degree = POLYNOMIAL_DEGREE
            /\ ~executor_received.some
                 => \A i \in 1..Len(input.challenge_ciphertexts) :
                       LET received == deserialize_ciphertext(input.challenge_ciphertexts[i])
                       IN  /\ received.ok
                           /\ received = encrypt(Signed(rng_used.val[i].plaintext_val),
                                                 input.public_key, rng_used.val[i].draws)
            /\ \A data \in buffers :
                  Len(data) = 16 * POLYNOMIAL_DEGREE
                  => LET guest == decrypt(deserialize_ciphertext(data).val,
                                          self.keys.private_key)
                         own   == deserialize_and_decrypt(self, data)
                     IN  own.ok /\ guest.ok /\ own.val.val = guest.val.val

\* A challenge of two ciphertexts of plaintext 2 carrying noise, answered with
\* their homomorphic sum, which both schemes decrypt to 4
C21_Witness ==
    /\ challenge.some /\ zkvm_result.some
    /\ challenge.val.challenge_metadata.challenge_plaintexts = <<2, 2>>
    /\ from_le_bytes(SubSeq(challenge.val.challenge_ciphertexts[1], 1, 8))
         # U64WrappingMul(U64(2), scaling_factor)
    /\ zkvm_result.val.result_ciphertexts = <<HonestResult(challenge.val)>>
    /\ deserialize_and_decrypt(challenger.val, HonestResult(challenge.val)) = Ok(Signed(4))
    /\ decrypt(deserialize_ciphertext(HonestResult(challenge.val)).val,
               challenger.val.keys.private_key) = Ok(Signed(4))

\* C22: the simulated executor yields a successful run: whatever challenge
\* create_challenge generated, the all-zero result ciphertexts of the simulated
\* execution pass verification, and run_proof_test stores and returns true.
C22_SimulationSucceeds ==
    /\ (verification.some
          /\ \A i \in 1..Len(zkvm_result.val.result_ciphertexts) :
                zkvm_result.val.result_ciphertexts[i] = ZeroBlob)
       => verification.val.success
    /\ \A t \in 1..Len(test_results) : test_results[t].proof_valid

\* C23: ciphertext well-formedness: every ciphertext deserialize_ciphertext
\* returns has exactly 2n coefficients, each of them in [0, Q).
C23_WellFormed ==
    (called.some /\ called.val.op = "deserialize_ciphertext" /\ called.val.output.ok)
    => LET data == called.val.output.val.ciphertext_data
       IN  /\ Len(data) = 2 * POLYNOMIAL_DEGREE
           /\ \A i \in 1..Len(data) : U64Lt(data[i], CIPHERTEXT_MODULUS)

\* C24: the guest's homomorphic addition is overflow-safe and total: for two
\* ciphertexts of 2n arbitrary 64-bit coefficients a_i and b_i it returns 2n
\* coefficients, coefficient i being (a_i + b_i) mod Q with the sum taken over
\* the integers (65 bits), also when a_i + b_i exceeds 2^64 - 1; the sum the
\* overflow branch forms from the reduced operands fits in 64 bits.
C24_AddOverflowSafe ==
    (called.some /\ called.val.op = "add")
    => LET a   == called.val.input[1].ciphertext_data
           b   == called.val.input[2].ciphertext_data
           out == called.val.output.ciphertext_data
       IN  /\ Len(out) = 2 * POLYNOMIAL_DEGREE
           /\ \A i \in 1..(2 * POLYNOMIAL_DEGREE) :
                 LET w == U64AddWide(a[i], b[i])
                 IN  /\ out[i] = <<w[1], w[2], w[3], w[4] % 1024>>
                     /\ w[5] = 1 =>
                          U64AddWide(U64Mod(a[i], CIPHERTEXT_MODULUS),
                                     U64Mod(b[i], CIPHERTEXT_MODULUS))[5] = 0

\* Two ciphertexts of coefficients 2^64 - 1 were added: every sum is 2^65 - 2
\* and every result coefficient is Q - 2
C24_Witness ==
    /\ called.some /\ called.val.op = "add"
    /\ \A k \in 1..2 : \A i \in 1..(2 * POLYNOMIAL_DEGREE) :
          called.val.input[k].ciphertext_data[i] = <<Base - 1, Base - 1, Base - 1, Base - 1>>
    /\ \A i \in 1..(2 * POLYNOMIAL_DEGREE) :
          called.val.output.ciphertext_data[i] = <<Base - 2, Base - 1, Base - 1, 1023>>

\* C25: the guest's encrypt/decrypt round trip.  For every plaintext m in [0,P)
\* and every noise encrypt draws, m * S does not overflow 64 bits, coefficient 0
\* is m * S + noise itself (below Q, so the reduction modulo Q changes nothing),
\* the noise is in [0, P/16), which is below S/2, and decrypting the ciphertext
\* returns m.
C25_EncryptDecryptRoundTrip ==
    (ct1.some /\ pt1.val.val >= 0 /\ pt1.val.val < PLAINTEXT_MODULUS)
    => LET m      == U64(pt1.val.val)
           scaled == U64Low(U64MulWide(m, scaling_factor))
           c0     == ct1.val.val.ciphertext_data[1]
       IN  /\ ct1.val.ok
           /\ ~U64MulOverflows(m, scaling_factor)
           /\ ~U64Lt(c0, scaled)
           /\ U64Lt(U64Sub(c0, scaled), U64(PLAINTEXT_MODULUS \div 16))
           /\ U64Lt(c0, CIPHERTEXT_MODULUS)
           /\ U64Lt(U64(2 * (PLAINTEXT_MODULUS \div 16)), scaling_factor)
           /\ (decrypted.some /\ decrypted.val.of = "ct1")
                => decrypted.val.result = Ok(Signed(pt1.val.val))

\* The largest plaintext, P - 1, was encrypted with the largest noise and
\* decrypted to P - 1
C25_Witness ==
    /\ ct1.some /\ pt1.val.val = PLAINTEXT_MODULUS - 1
    /\ ct1.val.val.ciphertext_data[1]
         = U64WrappingAdd(U64WrappingMul(U64(PLAINTEXT_MODULUS - 1), scaling_factor),
                          U64(MAX_NOISE_BOUND - 1))
    /\ decrypted.some /\ decrypted.val.of = "ct1"
    /\ decrypted.val.result = Ok(Signed(PLAINTEXT_MODULUS - 1))

\* C26: in the standalone scheme (P = 1024, Q = 2^40, the plaintext unscaled in
\* coefficient 0), decrypting the homomorphic sum of the encryptions of
\* m1..mk in [0,P) yields (m1 + ... + mk) mod P, which is a + b for two
\* plaintexts with a + b < P; and the three tallies of one-hot votes decrypt to
\* the number of votes each candidate received.
C26_StandaloneSum ==
    standalone.some =>
        LET s == standalone.val
        IN  /\ s.decrypted.some
                 => /\ s.decrypted.val = Ok(Signed(Sum(s.terms) % SIMPLE_PLAINTEXT_MODULUS))
                    /\ (Len(s.terms) = 2 /\ s.terms[1] + s.terms[2] < SIMPLE_PLAINTEXT_MODULUS)
                          => s.decrypted.val.val.val = s.terms[1] + s.terms[2]
            /\ s.final_tallies.some
                 => \A k \in 1..3 :
                       s.final_tallies.val[k]
                         = Cardinality({i \in 1..Len(s.votes) : s.votes[i][k] = 1})

\* The SIMPLE program decrypted the sum of the encryptions of 1023, 1023 and 5,
\* which wraps P twice, to 3
C26_Witness ==
    /\ standalone.some /\ standalone.val.program = "PROOF_OF_REAL_FHE_SIMPLE"
    /\ standalone.val.terms = <<1023, 1023, 5>>
    /\ standalone.val.decrypted = Some(Ok(Signed(3)))

\* C27: encryption in the standalone programs is randomized: among the values
\* a runtime has encrypted twice with the same public key, at least one has
\* two different ciphertexts.
C27_EncryptionRandomized ==
    (standalone.some
        /\ Len(standalone.val.pairs) = Cardinality(StandalonePlaintexts))
    => \E i \in 1..Len(standalone.val.pairs) :
          standalone.val.pairs[i].encrypted1.ciphertext_data
            # standalone.val.pairs[i].encrypted2.ciphertext_data

\* C28: the receipt's content has no influence on verification: verify_receipt
\* answers true for every receipt, so two calls of verify_zkvm_result that
\* differ in the receipt only return the same result, and neither result is
\* the RECEIPT_INVALID failure.
C28_ReceiptIgnored ==
    (called.some /\ called.val.op = "verify_zkvm_result")
    => LET out == called.val.output
       IN  /\ out.receipt_valid = <<TRUE, TRUE>>
           /\ out.verification[1] = out.verification[2]
           /\ \A k \in 1..2 :
                 out.verification[k].error.some
                 => out.verification[k].error.val.tag # "zkVM receipt validation failed"

\* An empty receipt and a 64-byte receipt, with the honest result of a
\* challenge of plaintext 2: both calls succeed with the decrypted value 2
C28_Witness ==
    /\ called.some /\ called.val.op = "verify_zkvm_result"
    /\ called.val.input.receipts = <<<<>>, [i \in 1..64 |-> i]>>
    /\ called.val.input.challenge_input.challenge_metadata.challenge_plaintexts = <<2>>
    /\ \A k \in 1..2 :
          /\ called.val.output.verification[k].success
          /\ called.val.output.verification[k].decrypted_results = Some(<<2>>)

\* C29: in the standalone programs' generate_keys the private key is a
\* function of the public key: whatever the runtime's seed, both keys have n
\* coefficients and secret_data[i] equals key_data[i] mod P for every index i
\* (P = 1024 divides 2^16, so the residue is that of the lowest 16 bits).
C29_PrivateFromPublic ==
    standalone.some =>
        LET key_data    == standalone.val.public_key.key_data
            secret_data == standalone.val.private_key.secret_data
        IN  /\ Len(key_data) = SIMPLE_POLYNOMIAL_DEGREE
            /\ Len(secret_data) = SIMPLE_POLYNOMIAL_DEGREE
            /\ \A i \in 1..SIMPLE_POLYNOMIAL_DEGREE :
                  secret_data[i] = U64(key_data[i][1] % SIMPLE_PLAINTEXT_MODULUS)

\* The SIMPLE program generated keys from the seed 54321; every public
\* coefficient exceeds P, and the first secret coefficient is not zero
C29_Witness ==
    /\ standalone.some /\ standalone.val.program = "PROOF_OF_REAL_FHE_SIMPLE"
    /\ standalone.val.runtime.noise_seed = U64(54321)
    /\ standalone.val.test = ""
    /\ \A i \in 1..SIMPLE_POLYNOMIAL_DEGREE :
          U64Lt(U64(SIMPLE_PLAINTEXT_MODULUS), standalone.val.public_key.key_data[i])
    /\ standalone.val.private_key.secret_data[1] # U64Zero

\* C30: the guest's computation hash identifies the tally: the hash of an
\* output is create_computation_hash of its three counts, and no other triple
\* of counts the guest can output (each a decryption result in [0, P); here
\* those with every count among 0, 1, 2 and P - 1) has the same hash.
C30_HashIdentifiesTally ==
    (tally_output.some /\ "computation_hash" \in DOMAIN tally_output.val)
    => LET out    == tally_output.val
           counts == <<out.option1_count, out.option2_count, out.option3_count>>
           Counts == {0, 1, 2, PLAINTEXT_MODULUS - 1}
       IN  /\ out.computation_hash
                = create_computation_hash(counts[1], counts[2], counts[3])
           /\ \A other \in Counts \X Counts \X Counts :
                 other # counts
                 => create_computation_hash(other[1], other[2], other[3])
                      # out.computation_hash

====
